---- MODULE Spec2Model ----
(***************************************************************************)
(* Model of the auction room of ipl-auction-app                            *)
(* (src/app/room/[roomId]/page.tsx).                                       *)
(*                                                                         *)
(* The shared store holds the room: the auction record, the teams and the  *)
(* players.  Every client keeps `room`, a copy of the store that the       *)
(* onValue subscription refreshes some time after each write (Sync).       *)
(* Every handler is async: each `await get(...)` and `await update(...)`   *)
(* is one step, and steps of different clients interleave.  pc[c] is the   *)
(* position of client c inside the handler it is running and pend[c] the   *)
(* values that handler holds in its local variables.                       *)
(*                                                                         *)
(* Amounts are in lakhs, times in milliseconds, as in the source.          *)
(***************************************************************************)
EXTENDS Integers, Sequences, FiniteSets, TLC

\* ---------------------------------------------------------------- bounds
\* Last instant of the clock (ms); no Tick goes beyond it.
MaxTime == 60000
\* Raises by the +0.5 Cr button are followed up to this bid (lakhs).
MaxRaiseBid == 250
\* Handler invocations (clicks, polls, timers) followed in one run.
MaxOps == 5
\* The same in a room of three teams.
MaxOps3 == 4
\* Each team's time-bank uses are followed up to this many.
MaxTimeBankUses == 1

\* ------------------------------------------------------ program constants
INITIAL_PURSE == 10000
INITIAL_TIME_BANK == 120
BID_WINDOW_MS == 30000
RESULT_WINDOW_MS == 5000
TIME_BANK_MS == 15000
TIME_BANK_STEP == 15
MIN_PURSE == 50
BID_STEP == 50
MAX_SQUAD == 25
RAISE_INCREMENT == 50

\* null of the store: for identifiers and for numbers
null == "null"
NONE == 0 - 1

\* The teams of the room; client c runs in the browser of team c, and the
\* owner of the first team is the admin.
Teams == {"T1", "T2"}
Admin == "T1"
\* The teams of a room of three.
Teams3 == Teams \cup {"T3"}
\* The clients whose copy of the room may lag behind the store; the copy of
\* the others is delivered at once.
LaggingClients == {"T2"}

\* auction.sets as handleGenerateSets left them: chunk 0 then chunk 1 (the
\* chunk size is scaled down from 20 so that a set boundary is within reach).
AuctionSets == << <<"p1", "p2">>, <<"p3">> >>

RECURSIVE FlattenSets(_)
FlattenSets(ss) == IF ss = <<>> THEN {}
                   ELSE {Head(ss)[i] : i \in DOMAIN Head(ss)} \cup FlattenSets(Tail(ss))

PlayerIds == FlattenSets(AuctionSets)

\* What the user can type in the custom-bid box: the number n, as hundredths
\* (n = h / 100), and the display unit selected at that moment.
CustomInputs == { [showInCrores |-> TRUE,  h |-> 10000],
                  [showInCrores |-> FALSE, h |-> 27500],
                  [showInCrores |-> FALSE, h |-> 0] }

\* How far the clock moves in one step.
TickSteps == {BID_WINDOW_MS}

VARIABLES auction, teams, players, room, pc, pend, now, ops

\* rooms/{id}/adminUid and, for the team-setup page, rooms/{id}/teamLayout,
\* every client's copy of it (`layouts`), the player a client has selected
\* and whether its ensure-layout effect has yet to run on its copy.
VARIABLES adminUid, teamLayout, layouts, selectedPlayerId, ensureDue

\* auction.sets as stored, and what set generation starts from: the
\* statistics of the season (seasons/{season}/players), the conversion
\* factors of the room (rooms/{id}/config) and the admin page's
\* scoredPlayers computed from the two.
VARIABLES sets, seasonPlayers, config, scoredPlayers

seasonVars == <<sets, seasonPlayers, config, scoredPlayers>>

\* what the handlers of the auction never write
pageVars == <<adminUid, teamLayout, layouts, selectedPlayerId, ensureDue, seasonVars>>

vars == <<auction, teams, players, room, pc, pend, now, ops, pageVars>>

\* ------------------------------------------------------- pure functions

\* getBasePriceLakhsForSet with the prices rising from set to set
getBasePriceLakhsForSet_Rising(setIndex) ==
    IF setIndex < 2 THEN 50
    ELSE IF setIndex < 5 THEN 100
    ELSE 200

\* getBasePriceLakhsForSet with its limits one set late
getBasePriceLakhsForSet_Late(setIndex) ==
    IF setIndex < 3 THEN 200
    ELSE IF setIndex < 6 THEN 100
    ELSE 50

\* getBasePriceLakhsForSet
getBasePriceLakhsForSet(setIndex) ==
    IF setIndex < 2 THEN 200
    ELSE IF setIndex < 5 THEN 100
    ELSE 50

\* the chunk (0-based) that holds player p
SetIndexOf(p) == CHOOSE i \in 0..(Len(AuctionSets) - 1) :
                    \E j \in DOMAIN AuctionSets[i + 1] : AuctionSets[i + 1][j] = p

\* players/{p}/basePriceLakhs as handleGenerateSets writes it, AuctionSets
\* being the sets from index firstSet on
GeneratedBasePrice(firstSet, p) ==
    getBasePriceLakhsForSet(firstSet + SetIndexOf(p))

\* sets[setIndex][playerIndex], null when there is none
PlayerAt(setIndex, playerIndex) ==
    IF /\ setIndex + 1 \in DOMAIN AuctionSets
       /\ playerIndex + 1 \in DOMAIN AuctionSets[setIndex + 1]
    THEN AuctionSets[setIndex + 1][playerIndex + 1]
    ELSE null

CurrentPlayerId(a) == PlayerAt(a.currentSetIndex, a.currentPlayerIndex)

\* currentPlayerBasePriceLakhs: players[pid].basePriceLakhs, which no write
\* after handleGenerateSets changes
basePriceLakhs(p) == players[p].basePriceLakhs

\* JavaScript truthiness of a nullable number
Truthy(n) == n # NONE /\ n # 0

\* teamOutOfPurse
teamOutOfPurse(team) == team.purseRemainingLakhs < MIN_PURSE

\* isEffectivelySatOut
isEffectivelySatOut(teamId, a, tms) ==
    \/ teamOutOfPurse(tms[teamId])
    \/ teamId \in a.satOutTeams

\* number of keys of playersBought
BoughtCount(team) ==
    Cardinality({p \in DOMAIN team.playersBought : team.playersBought[p] # NONE})

\* computeFinalAuctionStatus ending the auction on either condition
computeFinalAuctionStatus_Either(nextStatusFromSets, teamsAfter) ==
    LET allNoPurse == \A t \in DOMAIN teamsAfter :
                          teamsAfter[t].purseRemainingLakhs < MIN_PURSE
        allOverLimit == \A t \in DOMAIN teamsAfter :
                          BoughtCount(teamsAfter[t]) >= MAX_SQUAD
    IN IF DOMAIN teamsAfter = {} THEN nextStatusFromSets
       ELSE IF allNoPurse \/ allOverLimit THEN "finished"
       ELSE IF nextStatusFromSets = "finished" THEN "finished"
       ELSE "running"

\* computeFinalAuctionStatus
computeFinalAuctionStatus(nextStatusFromSets, teamsAfter) ==
    LET allNoPurse == \A t \in DOMAIN teamsAfter :
                          teamsAfter[t].purseRemainingLakhs < MIN_PURSE
        allOverLimit == \A t \in DOMAIN teamsAfter :
                          BoughtCount(teamsAfter[t]) >= MAX_SQUAD
    IN IF DOMAIN teamsAfter = {} THEN nextStatusFromSets
       ELSE IF allNoPurse /\ allOverLimit THEN "finished"
       ELSE IF nextStatusFromSets = "finished" THEN "finished"
       ELSE "running"

\* advanceToNextPlayerFields without its step into the next set
advanceToNextPlayerFields_SameSetOnly(a) ==
    LET currentSet == IF a.currentSetIndex + 1 \in DOMAIN AuctionSets
                      THEN AuctionSets[a.currentSetIndex + 1] ELSE <<>>
    IN IF a.currentPlayerIndex + 1 < Len(currentSet)
       THEN [nextSetIndex |-> a.currentSetIndex,
             nextPlayerIndex |-> a.currentPlayerIndex + 1,
             nextStatus |-> a.status]
       ELSE [nextSetIndex |-> a.currentSetIndex,
             nextPlayerIndex |-> a.currentPlayerIndex,
             nextStatus |-> "finished"]

\* advanceToNextPlayerFields
advanceToNextPlayerFields(a) ==
    LET setIndex == a.currentSetIndex
        playerIndex == a.currentPlayerIndex
        currentSet == IF setIndex + 1 \in DOMAIN AuctionSets
                      THEN AuctionSets[setIndex + 1] ELSE <<>>
    IN IF Len(AuctionSets) = 0
       THEN [nextSetIndex |-> 0, nextPlayerIndex |-> 0, nextStatus |-> "finished"]
       ELSE IF playerIndex + 1 < Len(currentSet)
       THEN [nextSetIndex |-> setIndex, nextPlayerIndex |-> playerIndex + 1,
             nextStatus |-> a.status]
       ELSE IF setIndex + 1 < Len(AuctionSets)
       THEN [nextSetIndex |-> setIndex + 1, nextPlayerIndex |-> 0,
             nextStatus |-> a.status]
       ELSE [nextSetIndex |-> setIndex, nextPlayerIndex |-> playerIndex,
             nextStatus |-> "finished"]

\* The amount, in hundredths of a lakh, that handlePlaceCustomBid makes of
\* the typed number: customLakhs = showInCrores ? n * 100 : n.
CustomLakhsX100(inp) == IF inp.showInCrores THEN inp.h * 100 ELSE inp.h

\* handlePlaceCustomBid without its multiple-of-50 test
CustomBidWellFormed_NoStepTest(inp) ==
    inp.h > 0

\* n > 0 and customLakhs % 50 === 0
CustomBidWellFormed(inp) ==
    /\ inp.h > 0
    /\ CustomLakhsX100(inp) % (BID_STEP * 100) = 0

CustomLakhs(inp) == CustomLakhsX100(inp) \div 100

\* ------------------------------------------------------- store updates

\* update(auctionRef, u): the fields named by u are replaced
UpdateAuction(a, u) == [f \in DOMAIN a |-> IF f \in DOMAIN u THEN u[f] ELSE a[f]]

Idle == [kind |-> "none"]

\* ------------------------------------------------------------- initial

\* Nobody has opened the team-setup page: no layout is stored.
SetupClosed ==
    /\ teamLayout = <<>>
    /\ layouts = <<>>
    /\ selectedPlayerId = <<>>
    /\ ensureDue = <<>>

\* createRoom's config
DefaultConfig == [CF1 |-> 30, CF2 |-> 2000, CF3 |-> 1]

\* The sets are generated; the statistics they were made from play no part
\* in the auction and are left out.
SetsGenerated ==
    /\ sets = AuctionSets
    /\ seasonPlayers = <<>>
    /\ config = DefaultConfig
    /\ scoredPlayers = <<>>

InitRoom(teamIds, lagging) ==
    /\ auction = [ currentSetIndex |-> 0,
                   currentPlayerIndex |-> 0,
                   currentBidLakhs |-> NONE,
                   currentBidTeamId |-> null,
                   bidDeadlineTs |-> NONE,
                   status |-> "not_started",
                   satOutTeams |-> {},
                   resultMessage |-> <<>>,
                   resultUntilTs |-> NONE ]
    /\ teams = [t \in teamIds |->
                  [ purseRemainingLakhs |-> INITIAL_PURSE,
                    timeBankSeconds |-> INITIAL_TIME_BANK,
                    playersBought |-> [p \in PlayerIds |-> NONE] ]]
    /\ players = [p \in PlayerIds |->
                  [ basePriceLakhs |-> GeneratedBasePrice(0, p),
                    status |-> "not_started",
                    soldToTeamId |-> null,
                    soldPriceLakhs |-> NONE ]]
    /\ room = [c \in lagging |-> [auction |-> auction, teams |-> teams]]
    /\ pc = [c \in teamIds |-> "idle"]
    /\ pend = [c \in teamIds |-> Idle]
    /\ now = 0
    /\ ops = 0
    /\ adminUid = Admin
    /\ SetupClosed
    /\ SetsGenerated

\* A room of two teams right after handleGenerateSets.
Init == InitRoom(Teams, LaggingClients)

\* The same room with a third team.
Init3 == InitRoom(Teams3, LaggingClients)

\* The room as client c sees it when a handler starts: its copy, or the
\* store itself for a client whose subscription never lags.
View(c) == IF c \in DOMAIN room THEN room[c]
           ELSE [auction |-> auction, teams |-> teams]

\* A handler starts: one more invocation.
Started ==
    /\ ops < (IF Cardinality(DOMAIN pc) > Cardinality(Teams) THEN MaxOps3 ELSE MaxOps)
    /\ ops' = ops + 1

\* ------------------------------------------------------------ environment

\* The onValue subscription delivers the current room to client c.
Sync(c) ==
    /\ UNCHANGED pageVars
    /\ c \in DOMAIN room
    /\ room[c] # [auction |-> auction, teams |-> teams]
    /\ room' = [room EXCEPT ![c] = [auction |-> auction, teams |-> teams]]
    /\ UNCHANGED <<auction, teams, players, pc, pend, now, ops>>

\* Wall-clock time passes.  The clock is followed in steps of a whole bid
\* window, and only while a deadline or a result banner is pending (nothing
\* compares the clock before the auction starts or after it ends).  A
\* request in flight and a subscription delivery take far less than such a
\* step, so they are over before the clock moves; the races at a deadline
\* stay in the model because a handler may start at the very instant
\* now = bidDeadlineTs, where the bid handlers still accept
\* (bidDeadlineTs < Date.now() is false) and doFinalize already settles
\* (Date.now() < bidDeadlineTs is false).
TickWithin(d, limit) ==
    /\ UNCHANGED pageVars
    /\ now + d <= limit
    /\ auction.status \in {"running", "showing_result"}
    /\ \A c \in DOMAIN pc : pc[c] = "idle"
    /\ now' = now + d
    /\ room' = [c \in DOMAIN room |-> [auction |-> auction, teams |-> teams]]
    /\ UNCHANGED <<auction, teams, players, pc, pend, ops>>

Tick(d) == TickWithin(d, MaxTime)

\* ---------------------------------------------------------- handleStartAuction

\* The admin clicks "Start auction": the button's guard, the cached-status
\* check and `await get(auctionRef)`.
StartAuctionRead(c) ==
    /\ UNCHANGED pageVars
    /\ pc[c] = "idle"
    /\ c = Admin
    /\ View(c).auction.status \notin {"running", "showing_result"}
    /\ View(c).auction.status # "finished"
    /\ LET auctionNow == auction
           hasPlayer == CurrentPlayerId(auctionNow) # null
           base == [ status |-> "running",
                     resultMessage |-> <<>>,
                     resultUntilTs |-> NONE ]
           updates == IF hasPlayer
                      THEN [ status |-> "running",
                             resultMessage |-> <<>>,
                             resultUntilTs |-> NONE,
                             bidDeadlineTs |->
                                 IF auctionNow.bidDeadlineTs # NONE
                                 THEN auctionNow.bidDeadlineTs
                                 ELSE now + BID_WINDOW_MS,
                             currentBidLakhs |-> auctionNow.currentBidLakhs,
                             currentBidTeamId |-> auctionNow.currentBidTeamId,
                             satOutTeams |-> {} ]
                      ELSE base
       IN /\ pend' = [pend EXCEPT ![c] = [kind |-> "startAuction", au |-> updates]]
          /\ pc' = [pc EXCEPT ![c] = "startAuction_w"]
    /\ UNCHANGED <<auction, teams, players, room, now>>
    /\ Started

\* `await update(auctionRef, updates)` of handleStartAuction lands.
StartAuctionWrite(c) ==
    /\ UNCHANGED pageVars
    /\ pc[c] = "startAuction_w"
    /\ auction' = UpdateAuction(auction, pend[c].au)
    /\ pc' = [pc EXCEPT ![c] = "idle"]
    /\ pend' = [pend EXCEPT ![c] = Idle]
    /\ UNCHANGED <<teams, players, room, now, ops>>

\* ------------------------------------------------------------ bidding

\* The update all three bid handlers issue.
BidUpdate(amount, teamId) ==
    [ currentBidLakhs |-> amount,
      currentBidTeamId |-> teamId,
      bidDeadlineTs |-> now + BID_WINDOW_MS ]

\* The deadline check of the bid handlers: bidDeadlineTs && bidDeadlineTs < Date.now()
DeadlinePassed(a) == Truthy(a.bidDeadlineTs) /\ a.bidDeadlineTs < now

\* The round bid button is enabled (its `disabled` expression is false) on
\* page c, whose localTeamId is t.
BidButtonEnabledAs(c, t) ==
    /\ View(c).auction.status = "running"
    /\ CurrentPlayerId(View(c).auction) # null
    /\ View(c).auction.currentBidTeamId # t
    /\ t \notin View(c).auction.satOutTeams
    /\ ~teamOutOfPurse(View(c).teams[t])

\* The page of team c
BidButtonEnabled(c) == BidButtonEnabledAs(c, c)

\* canBid of the custom-bid button on page c, whose localTeamId is t
canBidAs(c, t) ==
    /\ View(c).auction.status = "running"
    /\ CurrentPlayerId(View(c).auction) # null
    /\ View(c).auction.currentBidTeamId # t
    /\ ~teamOutOfPurse(View(c).teams[t])

\* The page of team c
canBid(c) == canBidAs(c, c)

\* The purse test of the bid handlers without the test
NotEnoughPurse_Unchecked(amountLakhs, team) ==
    FALSE

\* newBidLakhs > safeNum(myTeam.purseRemainingLakhs): "You do not have
\* enough purse for this bid."
NotEnoughPurse(amountLakhs, team) ==
    amountLakhs > team.purseRemainingLakhs

\* handleStartBidding up to and including `await get(auctionRef)` and the
\* checks on what it fetched; the two writes follow.
StartBiddingRead(c) ==
    /\ UNCHANGED pageVars
    /\ pc[c] = "idle"
    /\ BidButtonEnabled(c)
    /\ View(c).auction.currentBidLakhs = NONE
    /\ LET playerId == CurrentPlayerId(View(c).auction)
           basePrice == basePriceLakhs(playerId)
           myTeam == View(c).teams[c]
           auctionNow == auction
           newBidLakhs == basePrice
       IN /\ ~teamOutOfPurse(myTeam)
          /\ auctionNow.status = "running"
          /\ ~DeadlinePassed(auctionNow)
          /\ auctionNow.currentBidLakhs = NONE
          /\ ~isEffectivelySatOut(c, auctionNow, View(c).teams)
          /\ ~NotEnoughPurse(newBidLakhs, myTeam)
          /\ pend' = [pend EXCEPT ![c] =
                        [ kind |-> "startBidding",
                          au |-> BidUpdate(newBidLakhs, c),
                          playerId |-> playerId ]]
          /\ pc' = [pc EXCEPT ![c] = "bid_w"]
    /\ UNCHANGED <<auction, teams, players, room, now>>
    /\ Started

\* handleRaiseBid(50, base price, player) up to the write, invoked on page
\* c, whose localTeamId is t.
handleRaiseBid(c, t) ==
    /\ UNCHANGED pageVars
    /\ pc[c] = "idle"
    /\ BidButtonEnabledAs(c, t)
    /\ View(c).auction.currentBidLakhs # NONE
    /\ LET playerId == CurrentPlayerId(View(c).auction)
           basePrice == basePriceLakhs(playerId)
           myTeam == View(c).teams[t]
           serverAuction == auction
           currentBidLakhs == IF serverAuction.currentBidLakhs # NONE
                              THEN serverAuction.currentBidLakhs
                              ELSE basePrice
           newBidLakhs == currentBidLakhs + RAISE_INCREMENT
       IN /\ ~teamOutOfPurse(myTeam)
          /\ serverAuction.currentBidTeamId # t
          /\ serverAuction.status = "running"
          /\ ~DeadlinePassed(serverAuction)
          /\ ~isEffectivelySatOut(t, serverAuction, View(c).teams)
          /\ newBidLakhs % BID_STEP = 0
          /\ ~NotEnoughPurse(newBidLakhs, myTeam)
          /\ newBidLakhs <= MaxRaiseBid
          /\ pend' = [pend EXCEPT ![c] =
                        [ kind |-> "raiseBid",
                          au |-> BidUpdate(newBidLakhs, t),
                          playerId |-> playerId ]]
          /\ pc' = [pc EXCEPT ![c] = "bid_w"]
    /\ UNCHANGED <<auction, teams, players, room, now>>
    /\ Started

\* Team c clicks the +0.5 Cr button on its page.
RaiseBidRead(c) == handleRaiseBid(c, c)

\* handlePlaceCustomBid(text typed, base price, player) up to the write,
\* invoked on page c, whose localTeamId is t.
handlePlaceCustomBid(c, t, inp) ==
    /\ UNCHANGED pageVars
    /\ pc[c] = "idle"
    /\ canBidAs(c, t)
    /\ LET playerId == CurrentPlayerId(View(c).auction)
           basePrice == basePriceLakhs(playerId)
           myTeam == View(c).teams[t]
           serverAuction == auction
           customLakhs == CustomLakhs(inp)
           serverCurrent == IF serverAuction.currentBidLakhs # NONE
                            THEN serverAuction.currentBidLakhs
                            ELSE basePrice
       IN /\ ~teamOutOfPurse(myTeam)
          /\ CustomBidWellFormed(inp)
          /\ serverAuction.currentBidTeamId # t
          /\ serverAuction.status = "running"
          /\ ~DeadlinePassed(serverAuction)
          /\ ~isEffectivelySatOut(t, serverAuction, View(c).teams)
          /\ ~(customLakhs <= serverCurrent)
          /\ ~NotEnoughPurse(customLakhs, myTeam)
          /\ pend' = [pend EXCEPT ![c] =
                        [ kind |-> "customBid",
                          au |-> BidUpdate(customLakhs, t),
                          playerId |-> playerId ]]
          /\ pc' = [pc EXCEPT ![c] = "bid_w"]
    /\ UNCHANGED <<auction, teams, players, room, now>>
    /\ Started

\* Team c places the custom bid typed on its page.
PlaceCustomBidRead(c, inp) == handlePlaceCustomBid(c, c, inp)

\* `await update(auctionRef, {currentBidLakhs, currentBidTeamId,
\* bidDeadlineTs})` of a bid handler lands; handleStartBidding goes on to
\* its second write.
BidWrite(c) ==
    /\ UNCHANGED pageVars
    /\ pc[c] = "bid_w"
    /\ auction' = UpdateAuction(auction, pend[c].au)
    /\ IF pend[c].kind = "startBidding"
       THEN /\ pc' = [pc EXCEPT ![c] = "inAuction_w"]
            /\ pend' = pend
       ELSE /\ pc' = [pc EXCEPT ![c] = "idle"]
            /\ pend' = [pend EXCEPT ![c] = Idle]
    /\ UNCHANGED <<teams, players, room, now, ops>>

\* `await update(players/{playerId}, {status: "in_auction"})` lands.
InAuctionWrite(c) ==
    /\ UNCHANGED pageVars
    /\ pc[c] = "inAuction_w"
    /\ players' = [players EXCEPT ![pend[c].playerId].status = "in_auction"]
    /\ pc' = [pc EXCEPT ![c] = "idle"]
    /\ pend' = [pend EXCEPT ![c] = Idle]
    /\ UNCHANGED <<auction, teams, room, now, ops>>

\* ---------------------------------------------------------- settlement

\* The settlement update with the winner's purse left as it was fetched
SettlementUpdates_NoDebit(playerId, a, tms) ==
    IF a.currentBidTeamId # null /\ a.currentBidLakhs # NONE
    THEN [ playerId |-> playerId,
           sold |-> TRUE,
           teamId |-> a.currentBidTeamId,
           priceLakhs |-> a.currentBidLakhs,
           newPurse |-> tms[a.currentBidTeamId].purseRemainingLakhs,
           resultUntilTs |-> now + RESULT_WINDOW_MS ]
    ELSE [ playerId |-> playerId,
           sold |-> FALSE,
           teamId |-> null,
           priceLakhs |-> NONE,
           newPurse |-> NONE,
           resultUntilTs |-> now + RESULT_WINDOW_MS ]

\* The multi-path update that settles playerId, as doFinalize, handleSitOut
\* and autoSellToSingleActiveBidder build it from the auction record a they
\* fetched and the teams tms they fetched: sold to the holder of the bid
\* when there is one, unsold otherwise.
SettlementUpdates(playerId, a, tms) ==
    IF a.currentBidTeamId # null /\ a.currentBidLakhs # NONE
    THEN [ playerId |-> playerId,
           sold |-> TRUE,
           teamId |-> a.currentBidTeamId,
           priceLakhs |-> a.currentBidLakhs,
           newPurse |-> tms[a.currentBidTeamId].purseRemainingLakhs
                            - a.currentBidLakhs,
           resultUntilTs |-> now + RESULT_WINDOW_MS ]
    ELSE [ playerId |-> playerId,
           sold |-> FALSE,
           teamId |-> null,
           priceLakhs |-> NONE,
           newPurse |-> NONE,
           resultUntilTs |-> now + RESULT_WINDOW_MS ]

\* players after update(ref(db), updates) of a settlement
PlayersAfter(u) ==
    IF u.sold
    THEN [players EXCEPT ![u.playerId] =
            [ players[u.playerId] EXCEPT
                 !.status = "sold",
                 !.soldToTeamId = u.teamId,
                 !.soldPriceLakhs = u.priceLakhs ]]
    ELSE [players EXCEPT ![u.playerId].status = "unsold"]

\* teams after update(ref(db), updates) of a settlement
TeamsAfter(u) ==
    IF u.sold
    THEN [teams EXCEPT ![u.teamId].purseRemainingLakhs = u.newPurse,
                       ![u.teamId].playersBought[u.playerId] = u.priceLakhs]
    ELSE teams

\* the auction record after update(ref(db), updates) of a settlement
AuctionAfter(u) ==
    UpdateAuction(auction,
        [ currentBidLakhs |-> NONE,
          currentBidTeamId |-> null,
          bidDeadlineTs |-> NONE,
          satOutTeams |-> {},
          status |-> "showing_result",
          resultMessage |-> IF u.sold
                            THEN <<u.playerId, "sold", u.teamId, u.priceLakhs>>
                            ELSE <<u.playerId, "unsold">>,
          resultUntilTs |-> u.resultUntilTs ])

\* The settlement held by client c lands in the store.
ApplySettlement(c) ==
    /\ players' = PlayersAfter(pend[c].updates)
    /\ teams' = TeamsAfter(pend[c].updates)
    /\ auction' = AuctionAfter(pend[c].updates)
    /\ pc' = [pc EXCEPT ![c] = "idle"]
    /\ pend' = [pend EXCEPT ![c] = Idle]
    /\ UNCHANGED <<room, now, ops>>

\* ---------------------------------------------------------- doFinalize

\* The 300 ms poll of client c runs doFinalize: `await get(auctionRef)` and
\* the checks on status, deadline and current player.
doFinalizeRead(c) ==
    /\ UNCHANGED pageVars
    /\ pc[c] = "idle"
    /\ View(c).auction.status = "running"
    /\ Truthy(View(c).auction.bidDeadlineTs)
    /\ LET auctionNow == auction
           playerId == CurrentPlayerId(auctionNow)
       IN /\ auctionNow.status = "running"
          /\ Truthy(auctionNow.bidDeadlineTs)
          /\ ~(now < auctionNow.bidDeadlineTs)
          /\ playerId # null
          /\ pend' = [pend EXCEPT ![c] =
                        [ kind |-> "doFinalize",
                          auctionNow |-> auctionNow,
                          playerId |-> playerId ]]
          /\ pc' = [pc EXCEPT ![c] = "finalize_r"]
    /\ UNCHANGED <<auction, teams, players, room, now>>

FinalizeRead(c) ==
    /\ doFinalizeRead(c)
    /\ Started

\* `await Promise.all([get(playersRef), get(teamsRef)])` of doFinalize.
FinalizeFetch(c) ==
    /\ UNCHANGED pageVars
    /\ pc[c] = "finalize_r"
    /\ pend' = [pend EXCEPT ![c] =
                  [ kind |-> "doFinalize",
                    auctionNow |-> pend[c].auctionNow,
                    updates |-> SettlementUpdates(pend[c].playerId,
                                                  pend[c].auctionNow, teams) ]]
    /\ pc' = [pc EXCEPT ![c] = "finalize_w"]
    /\ UNCHANGED <<auction, teams, players, room, now, ops>>

\* `await update(ref(db), updates)` of doFinalize lands.
FinalizeWrite(c) ==
    /\ UNCHANGED pageVars
    /\ pc[c] = "finalize_w"
    /\ ApplySettlement(c)

\* ---------------------------------------------------------- handleSitOut

\* Every team of the room counted as active, sat out or not
activeTeamIds_Everyone(a, tms) == DOMAIN tms

\* The teams that are not effectively sat out
activeTeamIds(a, tms) == {id \in DOMAIN tms : ~isEffectivelySatOut(id, a, tms)}

\* handleSitOut up to `await get(auctionRef)` and the choice of branch.
SitOutRead(c) ==
    /\ UNCHANGED pageVars
    /\ pc[c] = "idle"
    /\ View(c).auction.status = "running"
    /\ CurrentPlayerId(View(c).auction) # null
    /\ c \notin View(c).auction.satOutTeams
    /\ LET tms == View(c).teams
           auctionNow == auction
           playerId == CurrentPlayerId(auctionNow)
           satOut == auctionNow.satOutTeams
           newSatOut == satOut \cup {c}
           active == activeTeamIds([auctionNow EXCEPT !.satOutTeams = newSatOut], tms)
       IN /\ playerId # null
          /\ c \notin satOut
          /\ IF Cardinality(active) >= 1
             THEN /\ pend' = [pend EXCEPT ![c] =
                                [ kind |-> "sitOut",
                                  playerId |-> playerId,
                                  au |-> [satOutTeams |-> newSatOut],
                                  autoSell |-> Cardinality(active) = 1 ]]
                  /\ pc' = [pc EXCEPT ![c] = "sitOut_mark_w"]
             ELSE /\ pend' = [pend EXCEPT ![c] =
                                [ kind |-> "sitOut",
                                  auctionNow |-> auctionNow,
                                  playerId |-> playerId ]]
                  /\ pc' = [pc EXCEPT ![c] = "sitOut_r"]
    /\ UNCHANGED <<auction, teams, players, room, now>>
    /\ Started

\* `await update(auctionRef, {satOutTeams: newSatOut})` lands; with exactly
\* one active team left the handler goes on to autoSellToSingleActiveBidder.
SitOutMarkWrite(c) ==
    /\ UNCHANGED pageVars
    /\ pc[c] = "sitOut_mark_w"
    /\ auction' = UpdateAuction(auction, pend[c].au)
    /\ IF pend[c].autoSell
       THEN /\ pc' = [pc EXCEPT ![c] = "autoSell"]
            /\ pend' = [pend EXCEPT ![c] = [kind |-> "autoSell"]]
       ELSE /\ pc' = [pc EXCEPT ![c] = "idle"]
            /\ pend' = [pend EXCEPT ![c] = Idle]
    /\ UNCHANGED <<teams, players, room, now, ops>>

\* Everyone sat out: `await get(playersRef)` and `await get(teamsRef)`.
SitOutFetch(c) ==
    /\ UNCHANGED pageVars
    /\ pc[c] = "sitOut_r"
    /\ pend' = [pend EXCEPT ![c] =
                  [ kind |-> "sitOut",
                    auctionNow |-> pend[c].auctionNow,
                    updates |-> SettlementUpdates(pend[c].playerId,
                                                  pend[c].auctionNow, teams) ]]
    /\ pc' = [pc EXCEPT ![c] = "sitOut_w"]
    /\ UNCHANGED <<auction, teams, players, room, now, ops>>

\* `await update(ref(db), updates)` of handleSitOut lands.
SitOutSettleWrite(c) ==
    /\ UNCHANGED pageVars
    /\ pc[c] = "sitOut_w"
    /\ ApplySettlement(c)

\* ------------------------------------------ autoSellToSingleActiveBidder

\* The test of autoSellToSingleActiveBidder with the count of active teams
\* and the comparison with the holder of the bid left out
SingleActiveHoldsBid_AnyBid(auctionNow, tms) ==
    /\ auctionNow.currentBidTeamId # null
    /\ auctionNow.currentBidLakhs # NONE

\* activeTeamIds.length === 1, there is a bid, and the one active team is
\* the team that holds it
SingleActiveHoldsBid(auctionNow, tms) ==
    LET active == activeTeamIds(auctionNow, tms)
    IN /\ Cardinality(active) = 1
       /\ auctionNow.currentBidTeamId # null
       /\ auctionNow.currentBidLakhs # NONE
       /\ active = {auctionNow.currentBidTeamId}

\* `await get(auctionRef)`: not running, or no current player, returns.
AutoSellRead(c) ==
    /\ UNCHANGED pageVars
    /\ pc[c] = "autoSell"
    /\ LET auctionNow == auction
           playerId == CurrentPlayerId(auctionNow)
       IN IF auctionNow.status # "running" \/ playerId = null
          THEN /\ pc' = [pc EXCEPT ![c] = "idle"]
               /\ pend' = [pend EXCEPT ![c] = Idle]
          ELSE /\ pc' = [pc EXCEPT ![c] = "autoSell_r"]
               /\ pend' = [pend EXCEPT ![c] =
                             [ kind |-> "autoSell",
                               auctionNow |-> auctionNow,
                               playerId |-> playerId ]]
    /\ UNCHANGED <<auction, teams, players, room, now, ops>>

\* `await Promise.all([get(teams), get(players)])` and the test that the
\* single active team holds the bid.
AutoSellFetch(c) ==
    /\ UNCHANGED pageVars
    /\ pc[c] = "autoSell_r"
    /\ LET auctionNow == pend[c].auctionNow
       IN IF ~SingleActiveHoldsBid(auctionNow, teams)
          THEN /\ pc' = [pc EXCEPT ![c] = "idle"]
               /\ pend' = [pend EXCEPT ![c] = Idle]
          ELSE /\ pc' = [pc EXCEPT ![c] = "autoSell_w"]
               /\ pend' = [pend EXCEPT ![c] =
                             [ kind |-> "autoSell",
                               auctionNow |-> auctionNow,
                               updates |-> SettlementUpdates(pend[c].playerId,
                                                             auctionNow, teams) ]]
    /\ UNCHANGED <<auction, teams, players, room, now, ops>>

\* `await update(ref(db), updates)` of autoSellToSingleActiveBidder lands.
AutoSellWrite(c) ==
    /\ UNCHANGED pageVars
    /\ pc[c] = "autoSell_w"
    /\ ApplySettlement(c)

\* ---------------------------------------------------------- runAdvance

\* The result banner of client c is over (no resultUntilTs, or its timer has
\* fired) and runAdvance fetches the auction and the teams.
runAdvanceRead(c) ==
    /\ UNCHANGED pageVars
    /\ pc[c] = "idle"
    /\ View(c).auction.status = "showing_result"
    /\ \/ ~Truthy(View(c).auction.resultUntilTs)
       \/ View(c).auction.resultUntilTs <= now
    /\ LET auctionNow == auction
           teamsNow == teams
           next == advanceToNextPlayerFields(auctionNow)
           finalStatus == computeFinalAuctionStatus(next.nextStatus, teamsNow)
           nextDeadline ==
               IF /\ finalStatus # "finished"
                  /\ PlayerAt(next.nextSetIndex, next.nextPlayerIndex) # null
               THEN now + BID_WINDOW_MS
               ELSE NONE
       IN /\ auctionNow.status = "showing_result"
          /\ pend' = [pend EXCEPT ![c] =
                        [ kind |-> "runAdvance",
                          au |-> [ currentSetIndex |-> next.nextSetIndex,
                                   currentPlayerIndex |-> next.nextPlayerIndex,
                                   status |-> finalStatus,
                                   bidDeadlineTs |-> nextDeadline,
                                   currentBidLakhs |-> NONE,
                                   currentBidTeamId |-> null,
                                   satOutTeams |-> {},
                                   resultMessage |-> <<>>,
                                   resultUntilTs |-> NONE ] ]]
          /\ pc' = [pc EXCEPT ![c] = "advance_w"]
    /\ UNCHANGED <<auction, teams, players, room, now>>

AdvanceRead(c) ==
    /\ runAdvanceRead(c)
    /\ Started

\* `await update(auctionRef, {...})` of runAdvance lands.
AdvanceWrite(c) ==
    /\ UNCHANGED pageVars
    /\ pc[c] = "advance_w"
    /\ auction' = UpdateAuction(auction, pend[c].au)
    /\ pc' = [pc EXCEPT ![c] = "idle"]
    /\ pend' = [pend EXCEPT ![c] = Idle]
    /\ UNCHANGED <<teams, players, room, now, ops>>

\* ---------------------------------------------------------- handleNextPlayer

\* The admin clicks "Next player": the update is computed from the client's
\* copy of the room.
NextPlayerClick(c) ==
    /\ UNCHANGED pageVars
    /\ pc[c] = "idle"
    /\ c = Admin
    /\ View(c).auction.currentBidLakhs = NONE
    /\ View(c).auction.status # "showing_result"
    /\ LET a == View(c).auction
           earlyStatus == computeFinalAuctionStatus(a.status, View(c).teams)
           next == advanceToNextPlayerFields(a)
           updates ==
             IF earlyStatus = "finished"
             THEN [status |-> "finished", bidDeadlineTs |-> NONE]
             ELSE [ currentSetIndex |-> next.nextSetIndex,
                    currentPlayerIndex |-> next.nextPlayerIndex,
                    currentBidLakhs |-> NONE,
                    currentBidTeamId |-> null,
                    satOutTeams |-> {},
                    status |-> next.nextStatus,
                    resultMessage |-> <<>>,
                    resultUntilTs |-> NONE,
                    bidDeadlineTs |-> IF next.nextStatus # "finished"
                                      THEN now + BID_WINDOW_MS
                                      ELSE NONE ]
       IN /\ pend' = [pend EXCEPT ![c] = [kind |-> "nextPlayer", au |-> updates]]
          /\ pc' = [pc EXCEPT ![c] = "nextPlayer_w"]
    /\ UNCHANGED <<auction, teams, players, room, now>>
    /\ Started

\* `await update(auctionRef, ...)` of handleNextPlayer lands.
NextPlayerWrite(c) ==
    /\ UNCHANGED pageVars
    /\ pc[c] = "nextPlayer_w"
    /\ auction' = UpdateAuction(auction, pend[c].au)
    /\ pc' = [pc EXCEPT ![c] = "idle"]
    /\ pend' = [pend EXCEPT ![c] = Idle]
    /\ UNCHANGED <<teams, players, room, now, ops>>

\* ---------------------------------------------------------- handleUseTimeBank

\* remaining < 15 testing for a negative balance only
TooLittleTimeBank_BelowZero(remaining) == remaining < 0

\* remaining < 15: "Not enough time bank left (need at least 15s)."
TooLittleTimeBank(remaining) == remaining < TIME_BANK_STEP

\* handleUseTimeBank on the page of team c: the new deadline and the new
\* balance are computed from the page's copy of the room.
handleUseTimeBank(c) ==
    /\ UNCHANGED pageVars
    /\ pc[c] = "idle"
    /\ View(c).auction.status = "running"
    /\ CurrentPlayerId(View(c).auction) # null
    /\ LET myTeam == View(c).teams[c]
           remaining == myTeam.timeBankSeconds
           currentDeadline == IF View(c).auction.bidDeadlineTs # NONE
                              THEN View(c).auction.bidDeadlineTs
                              ELSE now
           newDeadline == currentDeadline + TIME_BANK_MS
       IN /\ ~TooLittleTimeBank(remaining)
          /\ pend' = [pend EXCEPT ![c] =
                        [ kind |-> "useTimeBank",
                          au |-> [bidDeadlineTs |-> newDeadline],
                          timeBankSeconds |-> remaining - TIME_BANK_STEP ]]
          /\ pc' = [pc EXCEPT ![c] = "timeBank_w"]
    /\ UNCHANGED <<auction, teams, players, room, now>>

\* Team c clicks "Use 15s time bank" during the auction.
UseTimeBankClick(c) ==
    /\ INITIAL_TIME_BANK - (View(c).teams[c].timeBankSeconds - TIME_BANK_STEP)
          <= MaxTimeBankUses * TIME_BANK_STEP
    /\ handleUseTimeBank(c)
    /\ Started

\* `await update(ref(db), updates)` of handleUseTimeBank lands.
UseTimeBankWrite(c) ==
    /\ UNCHANGED pageVars
    /\ pc[c] = "timeBank_w"
    /\ auction' = UpdateAuction(auction, pend[c].au)
    /\ teams' = [teams EXCEPT ![c].timeBankSeconds = pend[c].timeBankSeconds]
    /\ pc' = [pc EXCEPT ![c] = "idle"]
    /\ pend' = [pend EXCEPT ![c] = Idle]
    /\ UNCHANGED <<players, room, now, ops>>

Next ==
    \/ \E c \in DOMAIN pc : Sync(c)
    \/ \E d \in TickSteps : Tick(d)
    \/ \E c \in DOMAIN pc : StartAuctionRead(c)
    \/ \E c \in DOMAIN pc : StartAuctionWrite(c)
    \/ \E c \in DOMAIN pc : StartBiddingRead(c)
    \/ \E c \in DOMAIN pc : RaiseBidRead(c)
    \/ \E c \in DOMAIN pc, inp \in CustomInputs : PlaceCustomBidRead(c, inp)
    \/ \E c \in DOMAIN pc : BidWrite(c)
    \/ \E c \in DOMAIN pc : InAuctionWrite(c)
    \/ \E c \in DOMAIN pc : FinalizeRead(c)
    \/ \E c \in DOMAIN pc : FinalizeFetch(c)
    \/ \E c \in DOMAIN pc : FinalizeWrite(c)
    \/ \E c \in DOMAIN pc : SitOutRead(c)
    \/ \E c \in DOMAIN pc : SitOutMarkWrite(c)
    \/ \E c \in DOMAIN pc : SitOutFetch(c)
    \/ \E c \in DOMAIN pc : SitOutSettleWrite(c)
    \/ \E c \in DOMAIN pc : AutoSellRead(c)
    \/ \E c \in DOMAIN pc : AutoSellFetch(c)
    \/ \E c \in DOMAIN pc : AutoSellWrite(c)
    \/ \E c \in DOMAIN pc : AdvanceRead(c)
    \/ \E c \in DOMAIN pc : AdvanceWrite(c)
    \/ \E c \in DOMAIN pc : NextPlayerClick(c)
    \/ \E c \in DOMAIN pc : NextPlayerWrite(c)
    \/ \E c \in DOMAIN pc : UseTimeBankClick(c)
    \/ \E c \in DOMAIN pc : UseTimeBankWrite(c)

Spec == Init /\ [][Next]_vars

\* The auction in a room of three teams.
Spec3 == Init3 /\ [][Next]_vars

\* ------------------------------------------------- across a price tier

\* AuctionSets read as sets[1] and sets[2] of a room whose sets[0] is over:
\* p1 and p2 were generated at 200 lakhs, p3 at 100; the pointer is counted
\* from sets[1].
FirstSetOfTiers == 1

\* Bidding on p2 has just opened, p1 went unsold.
InitTiers ==
    /\ auction = [ currentSetIndex |-> 0,
                   currentPlayerIndex |-> 1,
                   currentBidLakhs |-> NONE,
                   currentBidTeamId |-> null,
                   bidDeadlineTs |-> BID_WINDOW_MS,
                   status |-> "running",
                   satOutTeams |-> {},
                   resultMessage |-> <<>>,
                   resultUntilTs |-> NONE ]
    /\ teams = [t \in Teams |->
                  [ purseRemainingLakhs |-> INITIAL_PURSE,
                    timeBankSeconds |-> INITIAL_TIME_BANK,
                    playersBought |-> [p \in PlayerIds |-> NONE] ]]
    /\ players = [p \in PlayerIds |->
                  [ basePriceLakhs |-> GeneratedBasePrice(FirstSetOfTiers, p),
                    status |-> IF p = "p1" THEN "unsold" ELSE "not_started",
                    soldToTeamId |-> null,
                    soldPriceLakhs |-> NONE ]]
    /\ room = [c \in LaggingClients |-> [auction |-> auction, teams |-> teams]]
    /\ pc = [c \in Teams |-> "idle"]
    /\ pend = [c \in Teams |-> Idle]
    /\ now = 0
    /\ ops = 0
    /\ adminUid = Admin
    /\ SetupClosed
    /\ SetsGenerated

\* Bids, the settlement at the deadline, the advance and the admin's skip.
NextTiers ==
    \/ \E c \in DOMAIN pc : Sync(c)
    \/ \E d \in TickSteps : Tick(d)
    \/ \E c \in DOMAIN pc : StartBiddingRead(c)
    \/ \E c \in DOMAIN pc : RaiseBidRead(c)
    \/ \E c \in DOMAIN pc, inp \in CustomInputs : PlaceCustomBidRead(c, inp)
    \/ \E c \in DOMAIN pc : BidWrite(c)
    \/ \E c \in DOMAIN pc : InAuctionWrite(c)
    \/ \E c \in DOMAIN pc : FinalizeRead(c)
    \/ \E c \in DOMAIN pc : FinalizeFetch(c)
    \/ \E c \in DOMAIN pc : FinalizeWrite(c)
    \/ \E c \in DOMAIN pc : AdvanceRead(c)
    \/ \E c \in DOMAIN pc : AdvanceWrite(c)
    \/ \E c \in DOMAIN pc : NextPlayerClick(c)
    \/ \E c \in DOMAIN pc : NextPlayerWrite(c)

SpecTiers == InitTiers /\ [][NextTiers]_vars

\* ------------------------------------------------------------ progress
\* The auction with the deadline poll and the banner timer running for as
\* long as they are due: they are not counted as invocations, the users'
\* handlers are.  The clock runs far enough for every player to come up
\* after the users' last action.

ProgressMaxTime == 360000

\* setInterval(() => void doFinalize(), 300) of client c
PollFinalize(c) ==
    /\ doFinalizeRead(c)
    /\ UNCHANGED ops

\* the banner timer (or the effect itself) of client c calls runAdvance
TimerAdvance(c) ==
    /\ runAdvanceRead(c)
    /\ UNCHANGED ops

\* The clock moves by a bid window; the admin's poll (every 300 ms) and
\* banner timer, when due, run before that much time has passed.
ProgressTick(d) ==
    /\ ~ENABLED PollFinalize(Admin)
    /\ ~ENABLED TimerAdvance(Admin)
    /\ TickWithin(d, ProgressMaxTime)

\* A pending request of client c is answered.
Landing(c) ==
    \/ StartAuctionWrite(c)
    \/ BidWrite(c)
    \/ InAuctionWrite(c)
    \/ FinalizeFetch(c)
    \/ FinalizeWrite(c)
    \/ AdvanceWrite(c)
    \/ NextPlayerWrite(c)

NextProgress ==
    \/ \E c \in DOMAIN pc : Sync(c)
    \/ \E d \in TickSteps : ProgressTick(d)
    \/ \E c \in DOMAIN pc : StartAuctionRead(c)
    \/ \E c \in DOMAIN pc : StartBiddingRead(c)
    \/ \E c \in DOMAIN pc : RaiseBidRead(c)
    \/ \E c \in DOMAIN pc : PollFinalize(c)
    \/ \E c \in DOMAIN pc : TimerAdvance(c)
    \/ \E c \in DOMAIN pc : NextPlayerClick(c)
    \/ \E c \in DOMAIN pc : Landing(c)

\* The clock runs, snapshots are delivered, requests are answered, and the
\* admin's page keeps its poll and its banner timer running.
ProgressFairness ==
    /\ \A d \in TickSteps : WF_vars(ProgressTick(d))
    /\ \A c \in Teams : WF_vars(Sync(c))
    /\ \A c \in Teams : WF_vars(Landing(c))
    /\ WF_vars(PollFinalize(Admin))
    /\ WF_vars(TimerAdvance(Admin))

SpecProgress == Init /\ [][NextProgress]_vars /\ ProgressFairness

\* ------------------------------------------------- late in a long auction

\* Squad sizes and purses of teams that have bought through many earlier
\* sets: around the squad limit and around the smallest bid.
LateSquadSizes == {MAX_SQUAD - 1, MAX_SQUAD}
LatePurses == {0, MIN_PURSE}

\* The room while the result banner of an unsold player is shown, with
\* AuctionSets the sets still ahead and the teams' earlier purchases under
\* the keys 1..n of playersBought.
InitLate ==
    /\ \E si \in 0..(Len(AuctionSets) - 1), pi \in 0..1 :
          /\ PlayerAt(si, pi) # null
          /\ auction = [ currentSetIndex |-> si,
                         currentPlayerIndex |-> pi,
                         currentBidLakhs |-> NONE,
                         currentBidTeamId |-> null,
                         bidDeadlineTs |-> NONE,
                         status |-> "showing_result",
                         satOutTeams |-> {},
                         resultMessage |-> <<PlayerAt(si, pi), "unsold">>,
                         resultUntilTs |-> RESULT_WINDOW_MS ]
          /\ players = [p \in PlayerIds |->
                          [ basePriceLakhs |-> GeneratedBasePrice(0, p),
                            status |-> IF p = PlayerAt(si, pi) THEN "unsold"
                                       ELSE "not_started",
                            soldToTeamId |-> null,
                            soldPriceLakhs |-> NONE ]]
    /\ \E purse \in [Teams -> LatePurses], size \in [Teams -> LateSquadSizes] :
          teams = [t \in Teams |->
                     [ purseRemainingLakhs |-> purse[t],
                       timeBankSeconds |-> INITIAL_TIME_BANK,
                       playersBought |-> [p \in 1..size[t] |-> BID_STEP] ]]
    /\ room = [c \in LaggingClients |-> [auction |-> auction, teams |-> teams]]
    /\ pc = [c \in Teams |-> "idle"]
    /\ pend = [c \in Teams |-> Idle]
    /\ now = BID_WINDOW_MS
    /\ ops = 0
    /\ adminUid = Admin
    /\ SetupClosed
    /\ SetsGenerated

\* The clients' banner timers fire and runAdvance moves the auction on.
NextLate ==
    \/ \E c \in DOMAIN pc : Sync(c)
    \/ \E c \in DOMAIN pc : AdvanceRead(c)
    \/ \E c \in DOMAIN pc : AdvanceWrite(c)

SpecLate == InitLate /\ [][NextLate]_vars

\* ------------------------------------------ two invocations by one team

\* A second invocation context of the owner of T1: a second click on the
\* page while the first handler is still awaiting (no handler disables the
\* buttons while it runs), or the room open in a second tab.
SecondPage == "T1b"

\* Bidding on p1 is under way: nobody, T1 or T2 holds the opening bid.
InitTwoClicks ==
    /\ \E holder \in Teams \cup {null} :
          auction = [ currentSetIndex |-> 0,
                      currentPlayerIndex |-> 0,
                      currentBidLakhs |-> IF holder = null THEN NONE
                                          ELSE GeneratedBasePrice(0, "p1"),
                      currentBidTeamId |-> holder,
                      bidDeadlineTs |-> BID_WINDOW_MS,
                      status |-> "running",
                      satOutTeams |-> {},
                      resultMessage |-> <<>>,
                      resultUntilTs |-> NONE ]
    /\ teams = [t \in Teams |->
                  [ purseRemainingLakhs |-> INITIAL_PURSE,
                    timeBankSeconds |-> INITIAL_TIME_BANK,
                    playersBought |-> [p \in PlayerIds |-> NONE] ]]
    /\ players = [p \in PlayerIds |->
                  [ basePriceLakhs |-> GeneratedBasePrice(0, p),
                    status |-> IF p = "p1" /\ auction.currentBidTeamId # null
                               THEN "in_auction" ELSE "not_started",
                    soldToTeamId |-> null,
                    soldPriceLakhs |-> NONE ]]
    /\ room = [c \in LaggingClients |-> [auction |-> auction, teams |-> teams]]
    /\ pc = [c \in Teams \cup {SecondPage} |-> "idle"]
    /\ pend = [c \in Teams \cup {SecondPage} |-> Idle]
    /\ now = 0
    /\ ops = 0
    /\ adminUid = Admin
    /\ SetupClosed
    /\ SetsGenerated

\* The second invocation of T1's +0.5 Cr button
SecondRaiseBid(c) ==
    /\ c = SecondPage
    /\ handleRaiseBid(c, "T1")

\* The second invocation of T1's custom bid
SecondCustomBid(c, inp) ==
    /\ c = SecondPage
    /\ handlePlaceCustomBid(c, "T1", inp)

\* A click on the page of team c
FirstRaiseBid(c) ==
    /\ c \in Teams
    /\ RaiseBidRead(c)

FirstCustomBid(c, inp) ==
    /\ c \in Teams
    /\ PlaceCustomBidRead(c, inp)

NextTwoClicks ==
    \/ \E c \in DOMAIN pc : Sync(c)
    \/ \E c \in DOMAIN pc : FirstRaiseBid(c)
    \/ \E c \in DOMAIN pc, inp \in CustomInputs : FirstCustomBid(c, inp)
    \/ \E c \in DOMAIN pc : SecondRaiseBid(c)
    \/ \E c \in DOMAIN pc, inp \in CustomInputs : SecondCustomBid(c, inp)
    \/ \E c \in DOMAIN pc : BidWrite(c)

SpecTwoClicks == InitTwoClicks /\ [][NextTwoClicks]_vars

\* The same two invocations while the other team may sit out, which sells the
\* player at once to the only team left when that team holds the bid.
PageSitOut(c) ==
    /\ c \in Teams
    /\ SitOutRead(c)

NextTwoClicksSitOut ==
    \/ \E c \in DOMAIN pc : Sync(c)
    \/ \E c \in DOMAIN pc : FirstRaiseBid(c)
    \/ \E c \in DOMAIN pc, inp \in CustomInputs : FirstCustomBid(c, inp)
    \/ \E c \in DOMAIN pc : SecondRaiseBid(c)
    \/ \E c \in DOMAIN pc, inp \in CustomInputs : SecondCustomBid(c, inp)
    \/ \E c \in DOMAIN pc : BidWrite(c)
    \/ \E c \in DOMAIN pc : PageSitOut(c)
    \/ \E c \in DOMAIN pc : SitOutMarkWrite(c)
    \/ \E c \in DOMAIN pc : SitOutFetch(c)
    \/ \E c \in DOMAIN pc : SitOutSettleWrite(c)
    \/ \E c \in DOMAIN pc : AutoSellRead(c)
    \/ \E c \in DOMAIN pc : AutoSellFetch(c)
    \/ \E c \in DOMAIN pc : AutoSellWrite(c)

SpecTwoClicksSitOut == InitTwoClicks /\ [][NextTwoClicksSitOut]_vars

\* ------------------------------------------------- around a deadline

\* How long a request may be in flight, and the last instant followed.
RequestLatencyMs == 100
LastInstant == BID_WINDOW_MS + RequestLatencyMs

\* Bidding on p1 with the first deadline one request latency ahead, or
\* reached: nobody, T1 or T2 holds the opening bid.
InitDeadline ==
    /\ \E holder \in Teams \cup {null} :
          auction = [ currentSetIndex |-> 0,
                      currentPlayerIndex |-> 0,
                      currentBidLakhs |-> IF holder = null THEN NONE
                                          ELSE GeneratedBasePrice(0, "p1"),
                      currentBidTeamId |-> holder,
                      bidDeadlineTs |-> BID_WINDOW_MS,
                      status |-> "running",
                      satOutTeams |-> {},
                      resultMessage |-> <<>>,
                      resultUntilTs |-> NONE ]
    /\ teams = [t \in Teams |->
                  [ purseRemainingLakhs |-> INITIAL_PURSE,
                    timeBankSeconds |-> INITIAL_TIME_BANK,
                    playersBought |-> [p \in PlayerIds |-> NONE] ]]
    /\ players = [p \in PlayerIds |->
                  [ basePriceLakhs |-> GeneratedBasePrice(0, p),
                    status |-> IF p = "p1" /\ auction.currentBidTeamId # null
                               THEN "in_auction" ELSE "not_started",
                    soldToTeamId |-> null,
                    soldPriceLakhs |-> NONE ]]
    /\ room = [c \in LaggingClients |-> [auction |-> auction, teams |-> teams]]
    /\ pc = [c \in Teams |-> "idle"]
    /\ pend = [c \in Teams |-> Idle]
    /\ now \in {BID_WINDOW_MS - RequestLatencyMs, BID_WINDOW_MS}
    /\ ops = 0
    /\ adminUid = Admin
    /\ SetupClosed
    /\ SetsGenerated

\* Wall-clock time passes by one request latency, whatever is in flight.
Elapse ==
    /\ UNCHANGED pageVars
    /\ now + RequestLatencyMs <= LastInstant
    /\ now' = now + RequestLatencyMs
    /\ UNCHANGED <<auction, teams, players, room, pc, pend, ops>>

\* The bid handlers and the poll's doFinalize while the clock runs.
NextDeadline ==
    \/ \E c \in DOMAIN pc : Sync(c)
    \/ Elapse
    \/ \E c \in DOMAIN pc : StartBiddingRead(c)
    \/ \E c \in DOMAIN pc : RaiseBidRead(c)
    \/ \E c \in DOMAIN pc, inp \in CustomInputs : PlaceCustomBidRead(c, inp)
    \/ \E c \in DOMAIN pc : BidWrite(c)
    \/ \E c \in DOMAIN pc : InAuctionWrite(c)
    \/ \E c \in DOMAIN pc : FinalizeRead(c)
    \/ \E c \in DOMAIN pc : FinalizeFetch(c)
    \/ \E c \in DOMAIN pc : FinalizeWrite(c)

SpecDeadline == InitDeadline /\ [][NextDeadline]_vars

\* ------------------------------------------------- the whole time bank

\* The auction is running on p1 and nobody has used the time bank.
InitTimeBank ==
    /\ auction = [ currentSetIndex |-> 0,
                   currentPlayerIndex |-> 0,
                   currentBidLakhs |-> NONE,
                   currentBidTeamId |-> null,
                   bidDeadlineTs |-> BID_WINDOW_MS,
                   status |-> "running",
                   satOutTeams |-> {},
                   resultMessage |-> <<>>,
                   resultUntilTs |-> NONE ]
    /\ teams = [t \in Teams |->
                  [ purseRemainingLakhs |-> INITIAL_PURSE,
                    timeBankSeconds |-> INITIAL_TIME_BANK,
                    playersBought |-> [p \in PlayerIds |-> NONE] ]]
    /\ players = [p \in PlayerIds |->
                  [ basePriceLakhs |-> GeneratedBasePrice(0, p),
                    status |-> "not_started",
                    soldToTeamId |-> null,
                    soldPriceLakhs |-> NONE ]]
    /\ room = [c \in LaggingClients |-> [auction |-> auction, teams |-> teams]]
    /\ pc = [c \in Teams |-> "idle"]
    /\ pend = [c \in Teams |-> Idle]
    /\ now = 0
    /\ ops = 0
    /\ adminUid = Admin
    /\ SetupClosed
    /\ SetsGenerated

\* Team c clicks "Use 15s time bank" as often as the handler lets it.
UseTimeBankAgain(c) ==
    /\ handleUseTimeBank(c)
    /\ UNCHANGED ops

NextTimeBank ==
    \/ \E c \in DOMAIN pc : Sync(c)
    \/ \E c \in DOMAIN pc : UseTimeBankAgain(c)
    \/ \E c \in DOMAIN pc : UseTimeBankWrite(c)

SpecTimeBank == InitTimeBank /\ [][NextTimeBank]_vars

\* ---------------------------------------------------- team-setup page
\* src/app/room/[roomId]/team-setup/page.tsx, opened once the auction is
\* finished.  Player ids are numbers here and an empty slot is NONE.

\* The two browsers that edit the layout of the first team: its owner, and a
\* visitor with no team of this room in localStorage, for whom
\* effectiveTeamId falls back to teamIds[0].
SetupClients == {"owner", "guest"}
SetupTeam == "T1"
\* The owner's copy of the layouts is delivered at once; the visitor's lags.
LaggingSetupClients == {"guest"}

\* Math.min(15, boughtCount)
MAX_LINEUP == 15

\* makeEmptySlots: 6 BAT, 3 AR, 6 BOWL
Slots == ({"BAT"} \X (0..5)) \cup ({"AR"} \X (0..2)) \cup ({"BOWL"} \X (0..5))
makeEmptySlots == [s \in Slots |-> NONE]

\* The slots the users click, and how many players the team bought: a few,
\* or one more than fits in the slots.
ClickedSlots == {<<"BAT", 0>>, <<"AR", 0>>, <<"BOWL", 5>>}
SetupBoughtCounts == {2, MAX_LINEUP + 1}
\* The ids of the players a team bought are 1..n; the users select among
\* the last two.
SetupPlayerIds == 1..(MAX_LINEUP + 1)
SelectablePlayers(team) ==
    {p \in DOMAIN team.playersBought : p + 2 > BoughtCount(team)}

\* A layout nobody has stored yet reads as not finalized with empty slots
\* (the store keeps no null, so empty slots and no slots are the same).
NoLayout == [finalized |-> FALSE, slots |-> makeEmptySlots]

\* The layout of a team that has placed its first `filled` players, one per
\* slot, leaving the last slots empty.
PlacedLayout(filled) ==
    LET order == [s \in Slots |->
                    IF s[1] = "BAT" THEN s[2] + 1
                    ELSE IF s[1] = "AR" THEN s[2] + 7
                    ELSE s[2] + 10]
    IN [finalized |-> FALSE,
        slots |-> [s \in Slots |-> IF order[s] <= filled THEN order[s] ELSE NONE]]

\* `layouts` as client c has it
LayoutsView(c) == IF c \in DOMAIN layouts THEN layouts[c] ELSE teamLayout

\* myLayout: layouts[effectiveTeamId], normalised
myLayout(c) == LayoutsView(c)[SetupTeam]

\* layout && layout.slots
HasSlots(layout) == \E s \in Slots : layout.slots[s] # NONE

\* assignedPlayerIds
assignedPlayerIds(c) == {myLayout(c).slots[s] : s \in Slots} \ {NONE}

\* [...batSlots, ...arSlots, ...bowlSlots].filter((p) => p).length
filledCount(layout) == Cardinality({s \in Slots : layout.slots[s] # NONE})

\* handleFinalize asking for one slot less
requiredSlots_OneLess(team) ==
    (IF BoughtCount(team) < MAX_LINEUP THEN BoughtCount(team) ELSE MAX_LINEUP) - 1

\* requiredSlots = Math.min(15, boughtCount)
requiredSlots(team) ==
    IF BoughtCount(team) < MAX_LINEUP THEN BoughtCount(team) ELSE MAX_LINEUP

\* A write of client c is also applied to its own copy at once (the SDK
\* raises the local event before the server answers).
OwnLayouts(c, layout) ==
    IF c \in DOMAIN layouts
    THEN [layouts EXCEPT ![c] = [@ EXCEPT ![SetupTeam] = layout]]
    ELSE layouts

\* The auction is over; the team has bought n players and placed all but
\* two of them.  Both pages have the stored layouts, and the ensure-layout
\* effect is about to run where the layout has no slots.
InitSetup ==
    /\ auction = [ currentSetIndex |-> Len(AuctionSets) - 1,
                   currentPlayerIndex |-> Len(AuctionSets[Len(AuctionSets)]) - 1,
                   currentBidLakhs |-> NONE,
                   currentBidTeamId |-> null,
                   bidDeadlineTs |-> NONE,
                   status |-> "finished",
                   satOutTeams |-> {},
                   resultMessage |-> <<>>,
                   resultUntilTs |-> NONE ]
    /\ players = [p \in PlayerIds |->
                    [ basePriceLakhs |-> GeneratedBasePrice(0, p),
                      status |-> "unsold", soldToTeamId |-> null,
                      soldPriceLakhs |-> NONE ]]
    /\ \E n \in SetupBoughtCounts :
          /\ teams = [t \in {SetupTeam} |->
                        [ purseRemainingLakhs |-> INITIAL_PURSE - n * BID_STEP,
                          timeBankSeconds |-> INITIAL_TIME_BANK,
                          playersBought |-> [p \in 1..n |-> BID_STEP] ]]
          /\ teamLayout = [t \in {SetupTeam} |-> PlacedLayout(n - 2)]
    /\ room = <<>>
    /\ pc = [c \in SetupClients |-> "idle"]
    /\ pend = [c \in SetupClients |-> Idle]
    /\ now = 0
    /\ ops = 0
    /\ adminUid = Admin
    /\ SetsGenerated
    /\ layouts = [c \in LaggingSetupClients |-> teamLayout]
    /\ selectedPlayerId = [c \in SetupClients |-> NONE]
    /\ ensureDue = [c \in LaggingSetupClients |-> ~HasSlots(teamLayout[SetupTeam])]

\* onValue(layoutRef, ...) delivers the stored layouts to client c; the
\* ensure-layout effect then has to run if the delivered layout has no slots.
SyncLayouts(c) ==
    /\ c \in DOMAIN layouts
    /\ layouts[c] # teamLayout
    /\ layouts' = [layouts EXCEPT ![c] = teamLayout]
    /\ ensureDue' = [ensureDue EXCEPT ![c] = ~HasSlots(teamLayout[SetupTeam])]
    /\ UNCHANGED <<auction, teams, players, room, pc, pend, now, ops,
                   seasonVars, adminUid, teamLayout, selectedPlayerId>>

\* The ensure-layout effect of client c: its copy of the layout has no
\* slots, so it stores a default layout over the whole layout of the team.
EnsureLayout(c) ==
    /\ c \in DOMAIN layouts
    /\ ensureDue[c]
    /\ ~HasSlots(myLayout(c))
    /\ LET defaultLayout == [finalized |-> myLayout(c).finalized,
                             slots |-> makeEmptySlots]
       IN /\ teamLayout' = [teamLayout EXCEPT ![SetupTeam] = defaultLayout]
          /\ layouts' = OwnLayouts(c, defaultLayout)
    /\ ensureDue' = [ensureDue EXCEPT ![c] = FALSE]
    /\ UNCHANGED <<auction, teams, players, room, pc, pend, now, ops,
                   seasonVars, adminUid, selectedPlayerId>>

\* Client c clicks a bought player in the list: it is selected, or
\* unselected if it was the selection.
SelectPlayer(c, p) ==
    /\ p \in SelectablePlayers(teams[SetupTeam])
    /\ ~myLayout(c).finalized
    /\ p \notin assignedPlayerIds(c)
    /\ selectedPlayerId' = [selectedPlayerId EXCEPT ![c] = IF @ = p THEN NONE ELSE p]
    /\ UNCHANGED <<auction, teams, players, room, pc, pend, now,
                   seasonVars, adminUid, teamLayout, layouts, ensureDue>>
    /\ Started

\* handleAssignToSlot(role, index, playerId): one slot of the stored layout
\* is written.
handleAssignToSlot(c, s, playerId) ==
    /\ ~myLayout(c).finalized
    /\ teamLayout' = [teamLayout EXCEPT ![SetupTeam].slots[s] = playerId]
    /\ layouts' = OwnLayouts(c, [myLayout(c) EXCEPT !.slots[s] = playerId])

\* Client c clicks slot s with a player selected.
AssignSlot(c, s) ==
    /\ ~myLayout(c).finalized
    /\ selectedPlayerId[c] # NONE
    /\ handleAssignToSlot(c, s, selectedPlayerId[c])
    /\ selectedPlayerId' = [selectedPlayerId EXCEPT ![c] = NONE]
    /\ UNCHANGED <<auction, teams, players, room, pc, pend, now,
                   seasonVars, adminUid, ensureDue>>
    /\ Started

\* Client c clicks "clear" on slot s, which it sees filled.
ClearSlot(c, s) ==
    /\ myLayout(c).slots[s] # NONE
    /\ ~myLayout(c).finalized
    /\ handleAssignToSlot(c, s, NONE)
    /\ UNCHANGED <<auction, teams, players, room, pc, pend, now,
                   seasonVars, adminUid, selectedPlayerId, ensureDue>>
    /\ Started

\* handleFinalize: client c clicks "Finalize team" (disabled once it sees
\* the layout finalized); with too few slots filled it only alerts.
handleFinalize(c) ==
    /\ ~myLayout(c).finalized
    /\ ~(filledCount(myLayout(c)) < requiredSlots(teams[SetupTeam]))
    /\ teamLayout' = [teamLayout EXCEPT ![SetupTeam].finalized = TRUE]
    /\ layouts' = OwnLayouts(c, [myLayout(c) EXCEPT !.finalized = TRUE])
    /\ UNCHANGED <<auction, teams, players, room, pc, pend, now,
                   seasonVars, adminUid, selectedPlayerId, ensureDue>>
    /\ Started

NextSetup ==
    \/ \E c \in SetupClients : SyncLayouts(c)
    \/ \E c \in SetupClients : EnsureLayout(c)
    \/ \E c \in SetupClients, p \in SetupPlayerIds : SelectPlayer(c, p)
    \/ \E c \in SetupClients, s \in ClickedSlots : AssignSlot(c, s)
    \/ \E c \in SetupClients, s \in ClickedSlots : ClearSlot(c, s)
    \/ \E c \in SetupClients : handleFinalize(c)

SpecSetup == InitSetup /\ [][NextSetup]_vars

\* ------------------------------------------------------ handleCreateTeam
\* The lobby of a room that src/app/page.tsx has just created: no team, no
\* adminUid.  The team that client c creates is stored under key c (push()
\* gives every call a key of its own), and c is also its authUid.

Creators == Teams3

TEAM_COLORS == << "#EF4444", "#F97316", "#EAB308", "#22C55E", "#06B6D4",
                 "#3B82F6", "#6366F1", "#A855F7", "#EC4899", "#F97373" >>

\* What the users type as team name.
TeamNameInputs == {"Kings", " kings", "Royals", " "}

\* String.prototype.trim on these inputs
Trim(str) ==
    CASE str = " kings" -> "kings"
      [] str = " " -> ""
      [] OTHER -> str

\* String.prototype.toLowerCase on the trimmed names
ToLowerCase(str) ==
    CASE str = "Kings" -> "kings"
      [] str = "Royals" -> "royals"
      [] OTHER -> str

\* Object.values(existingTeams).some(t => t.name.toLowerCase() === name.toLowerCase())
nameTaken(name, existingTeams) ==
    \E t \in DOMAIN existingTeams :
        ToLowerCase(existingTeams[t].name) = ToLowerCase(name)

\* TEAM_COLORS.find((c) => !usedColors.has(c)) || "#FFFFFF"
FirstFreeColor(existingTeams) ==
    LET usedColors == {existingTeams[t].color : t \in DOMAIN existingTeams}
        free == {i \in DOMAIN TEAM_COLORS : TEAM_COLORS[i] \notin usedColors}
    IN IF free = {} THEN "#FFFFFF"
       ELSE TEAM_COLORS[CHOOSE i \in free : \A j \in free : i <= j]

InitLobby ==
    /\ auction = [ currentSetIndex |-> 0,
                   currentPlayerIndex |-> 0,
                   currentBidLakhs |-> NONE,
                   currentBidTeamId |-> null,
                   bidDeadlineTs |-> NONE,
                   status |-> "not_started",
                   satOutTeams |-> {},
                   resultMessage |-> <<>>,
                   resultUntilTs |-> NONE ]
    /\ teams = <<>>
    /\ players = [p \in PlayerIds |->
                    [ basePriceLakhs |-> GeneratedBasePrice(0, p),
                      status |-> "not_started", soldToTeamId |-> null,
                      soldPriceLakhs |-> NONE ]]
    /\ room = <<>>
    /\ pc = [c \in Creators |-> "idle"]
    /\ pend = [c \in Creators |-> Idle]
    /\ now = 0
    /\ ops = 0
    /\ adminUid = null
    /\ SetupClosed
    /\ sets = <<>>
    /\ seasonPlayers = <<>>
    /\ config = DefaultConfig
    /\ scoredPlayers = <<>>

\* handleCreateTeam up to `await get(teamsRef)` and the checks on its
\* result; `room` of the closure is the room at the click.  createdAt is
\* Date.now() at the call of set, followed as the number of handler calls
\* made before this one.
CreateTeamRead(c, input) ==
    /\ pc[c] = "idle"
    /\ c \notin DOMAIN teams
    /\ LET name == Trim(input)
           existingTeams == teams
       IN /\ name # ""
          /\ ~nameTaken(name, existingTeams)
          /\ pend' = [pend EXCEPT ![c] =
                        [ kind |-> "createTeam",
                          name |-> name,
                          color |-> FirstFreeColor(existingTeams),
                          createdAt |-> ops,
                          roomAdminUid |-> adminUid ]]
    /\ pc' = [pc EXCEPT ![c] = "createTeam_set"]
    /\ UNCHANGED <<auction, teams, players, room, now, pageVars>>
    /\ Started

\* `await set(newTeamRef, {...})` lands.
CreateTeamSet(c) ==
    /\ pc[c] = "createTeam_set"
    /\ teams' = [t \in DOMAIN teams \cup {c} |->
                   IF t = c
                   THEN [ name |-> pend[c].name,
                          color |-> pend[c].color,
                          purseRemainingLakhs |-> INITIAL_PURSE,
                          timeBankSeconds |-> INITIAL_TIME_BANK,
                          ownerUid |-> c,
                          createdAt |-> pend[c].createdAt,
                          playersBought |-> [p \in PlayerIds |-> NONE] ]
                   ELSE teams[t]]
    /\ IF pend[c].roomAdminUid = null
       THEN /\ pc' = [pc EXCEPT ![c] = "createTeam_admin"]
            /\ pend' = pend
       ELSE /\ pc' = [pc EXCEPT ![c] = "idle"]
            /\ pend' = [pend EXCEPT ![c] = Idle]
    /\ UNCHANGED <<auction, players, room, now, ops, pageVars>>

\* `await update(ref(db), { adminUid: authUid })` lands.
CreateTeamAdmin(c) ==
    /\ pc[c] = "createTeam_admin"
    /\ adminUid' = c
    /\ pc' = [pc EXCEPT ![c] = "idle"]
    /\ pend' = [pend EXCEPT ![c] = Idle]
    /\ UNCHANGED <<auction, teams, players, room, now, ops, seasonVars,
                   teamLayout, layouts, selectedPlayerId, ensureDue>>

NextLobby ==
    \/ \E c \in Creators, input \in TeamNameInputs : CreateTeamRead(c, input)
    \/ \E c \in Creators : CreateTeamSet(c)
    \/ \E c \in Creators : CreateTeamAdmin(c)

SpecLobby == InitLobby /\ [][NextLobby]_vars

\* --------------------------------------------------- handleGenerateSets
\* The admin's config view of a room that has teams but no auction yet.
\* Players are numbered here; scoredPlayers is the list the page computed,
\* in the order of Object.entries.

SET_SIZE == 20

\* How many players the season has: one, a few sets, and enough for a
\* seventh set.
ScoredPlayerCounts == {1, 2 * SET_SIZE + 5, 6 * SET_SIZE + 5}

\* The allRounderScore of player i of n: rising, falling, scattered, and
\* with equal scores.
ScoreOrders == {"rising", "falling", "scattered", "ties"}
ScoreOf(order, i, n) ==
    CASE order = "rising" -> i
      [] order = "falling" -> n - i
      [] order = "scattered" -> (i * 37) % 127
      [] OTHER -> i \div 2

\* the list left in the order of Object.entries
SortByAllRounderScore_Unsorted(list) == list

\* [...list].sort((a, b) => b.allRounderScore - a.allRounderScore): the
\* place of an entry is one more than the number of entries that beat it,
\* equal scores keeping their order.
SortByAllRounderScore(list) ==
    LET place(i) ==
            1 + Cardinality({j \in DOMAIN list :
                    \/ list[j].allRounderScore > list[i].allRounderScore
                    \/ /\ list[j].allRounderScore = list[i].allRounderScore
                       /\ j < i})
    IN [k \in DOMAIN list |-> list[CHOOSE i \in DOMAIN list : place(i) = k]]

\* shuffleArray draws a permutation at random; the permutations followed
\* are the rotations by these many places.
ShuffleRotations == {0, 3}
Rotate(seq, r) ==
    [k \in DOMAIN seq |-> seq[((k - 1 + r) % Len(seq)) + 1]]

InitGenerate ==
    /\ auction = [ currentSetIndex |-> 0,
                   currentPlayerIndex |-> 0,
                   currentBidLakhs |-> NONE,
                   currentBidTeamId |-> null,
                   bidDeadlineTs |-> NONE,
                   status |-> "not_started",
                   satOutTeams |-> {},
                   resultMessage |-> <<>>,
                   resultUntilTs |-> NONE ]
    /\ teams = [t \in Teams |->
                  [ purseRemainingLakhs |-> INITIAL_PURSE,
                    timeBankSeconds |-> INITIAL_TIME_BANK,
                    playersBought |-> <<>> ]]
    /\ players = <<>>
    /\ room = <<>>
    /\ pc = [c \in {Admin} |-> "idle"]
    /\ pend = [c \in {Admin} |-> Idle]
    /\ now = 0
    /\ ops = 0
    /\ adminUid = Admin
    /\ SetupClosed
    /\ sets = <<>>
    /\ seasonPlayers = <<>>
    /\ config = DefaultConfig
    /\ \E n \in ScoredPlayerCounts, order \in ScoreOrders :
          scoredPlayers = [i \in 1..n |->
                             [id |-> i, allRounderScore |-> ScoreOf(order, i, n)]]

\* The admin clicks "Next: prepare auction": handleGenerateSets sorts the
\* scored players.
GenerateSetsClick(c) ==
    /\ pc[c] = "idle"
    /\ c = adminUid
    /\ sets = <<>>
    /\ Len(scoredPlayers) # 0
    /\ pend' = [pend EXCEPT ![c] =
                  [ kind |-> "generateSets",
                    sorted |-> SortByAllRounderScore(scoredPlayers),
                    index |-> 0,
                    rawSets |-> <<>>,
                    playersObj |-> <<>> ]]
    /\ pc' = [pc EXCEPT ![c] = "generateSets_loop"]
    /\ UNCHANGED <<auction, teams, players, room, now, pageVars>>
    /\ Started

\* One turn of sorted.forEach((p, index) => ...).
GenerateSetsLoop(c) ==
    /\ pc[c] = "generateSets_loop"
    /\ pend[c].index < Len(pend[c].sorted)
    /\ LET index == pend[c].index
           p == pend[c].sorted[index + 1]
           setIndex == index \div SET_SIZE
           rawSets == pend[c].rawSets
           playersObj == pend[c].playersObj
           basePrice == getBasePriceLakhsForSet(setIndex)
       IN pend' = [pend EXCEPT ![c] =
                     [ @ EXCEPT
                         !.index = index + 1,
                         !.rawSets =
                             IF setIndex + 1 \in DOMAIN rawSets
                             THEN [rawSets EXCEPT ![setIndex + 1] = Append(@, p.id)]
                             ELSE Append(rawSets, <<p.id>>),
                         !.playersObj =
                             [q \in DOMAIN playersObj \cup {p.id} |->
                                IF q = p.id
                                THEN [ basePriceLakhs |-> basePrice,
                                       status |-> "not_started",
                                       soldToTeamId |-> null,
                                       soldPriceLakhs |-> NONE ]
                                ELSE playersObj[q]] ]]
    /\ UNCHANGED <<auction, teams, players, room, pc, now, ops, pageVars>>

\* The sets are shuffled and `await update(ref(db), updates)` replaces the
\* players and the auction of the room.
GenerateSetsWrite(c, r) ==
    /\ pc[c] = "generateSets_loop"
    /\ pend[c].index = Len(pend[c].sorted)
    /\ players' = pend[c].playersObj
    /\ sets' = [i \in DOMAIN pend[c].rawSets |-> Rotate(pend[c].rawSets[i], r)]
    /\ auction' = [ currentSetIndex |-> 0,
                    currentPlayerIndex |-> 0,
                    currentBidLakhs |-> NONE,
                    currentBidTeamId |-> null,
                    bidDeadlineTs |-> NONE,
                    status |-> "not_started",
                    satOutTeams |-> {},
                    resultMessage |-> <<>>,
                    resultUntilTs |-> NONE ]
    /\ pc' = [pc EXCEPT ![c] = "idle"]
    /\ pend' = [pend EXCEPT ![c] = Idle]
    /\ UNCHANGED <<teams, room, now, ops, adminUid, teamLayout, layouts,
                   selectedPlayerId, ensureDue, seasonPlayers, config,
                   scoredPlayers>>

NextGenerate ==
    \/ \E c \in DOMAIN pc : GenerateSetsClick(c)
    \/ \E c \in DOMAIN pc : GenerateSetsLoop(c)
    \/ \E c \in DOMAIN pc, r \in ShuffleRotations : GenerateSetsWrite(c, r)

SpecGenerate == InitGenerate /\ [][NextGenerate]_vars

\* ------------------------------------- generation next to a started auction
\* The admin has the room open on two pages, both still in the config view
\* (no sets yet).  "Next: prepare auction" is disabled only for a page that
\* is not the admin's; the auction view, with its start button, is shown as
\* soon as the page's room has sets.

\* How many players the season has here: one, and a set and one more.
RegenerateCounts == {1, SET_SIZE + 1}

InitRegenerate ==
    /\ auction = [ currentSetIndex |-> 0,
                   currentPlayerIndex |-> 0,
                   currentBidLakhs |-> NONE,
                   currentBidTeamId |-> null,
                   bidDeadlineTs |-> NONE,
                   status |-> "not_started",
                   satOutTeams |-> {},
                   resultMessage |-> <<>>,
                   resultUntilTs |-> NONE ]
    /\ teams = [t \in Teams |->
                  [ purseRemainingLakhs |-> INITIAL_PURSE,
                    timeBankSeconds |-> INITIAL_TIME_BANK,
                    playersBought |-> <<>> ]]
    /\ players = <<>>
    /\ room = <<>>
    /\ pc = [c \in {Admin, SecondPage} |-> "idle"]
    /\ pend = [c \in {Admin, SecondPage} |-> Idle]
    /\ now = 0
    /\ ops = 0
    /\ adminUid = Admin
    /\ SetupClosed
    /\ sets = <<>>
    /\ seasonPlayers = <<>>
    /\ config = DefaultConfig
    /\ \E n \in RegenerateCounts, order \in ScoreOrders :
          scoredPlayers = [i \in 1..n |->
                             [id |-> i, allRounderScore |-> ScoreOf(order, i, n)]]

\* "Next: prepare auction" on the admin's second page.
SecondGenerateSetsClick(c) ==
    /\ c = SecondPage
    /\ adminUid = Admin
    /\ pc[c] = "idle"
    /\ sets = <<>>
    /\ Len(scoredPlayers) # 0
    /\ pend' = [pend EXCEPT ![c] =
                  [ kind |-> "generateSets",
                    sorted |-> SortByAllRounderScore(scoredPlayers),
                    index |-> 0,
                    rawSets |-> <<>>,
                    playersObj |-> <<>> ]]
    /\ pc' = [pc EXCEPT ![c] = "generateSets_loop"]
    /\ UNCHANGED <<auction, teams, players, room, now, pageVars>>
    /\ Started

\* "Start auction" in the auction view, which a page shows once sets exist;
\* the pointer is then at the first player of the first set.
StartGeneratedAuctionRead(c) ==
    /\ sets # <<>>
    /\ StartAuctionRead(c)

NextRegenerate ==
    \/ \E c \in DOMAIN pc : GenerateSetsClick(c)
    \/ \E c \in DOMAIN pc : SecondGenerateSetsClick(c)
    \/ \E c \in DOMAIN pc : GenerateSetsLoop(c)
    \/ \E c \in DOMAIN pc, r \in ShuffleRotations : GenerateSetsWrite(c, r)
    \/ \E c \in DOMAIN pc : StartGeneratedAuctionRead(c)
    \/ \E c \in DOMAIN pc : StartAuctionWrite(c)

SpecRegenerate == InitRegenerate /\ [][NextRegenerate]_vars

\* -------------------------------------------------------------- scoring
\* scoredPlayers of the room page.  A statistic or a factor is held in
\* hundredths (H(140) is 140, 785 is 7.85), a missing one is NONE, and a
\* score is the exact fraction n / d of the numbers the code combines.

H(x) == x * 100

RECURSIVE GCD(_, _)
GCD(a, b) == IF b = 0 THEN a ELSE GCD(b, a % b)

\* n / d in lowest terms; d = 0 is the Infinity a division by zero gives
Frac(n, d) ==
    IF d = 0 THEN [n |-> 1, d |-> 0]
    ELSE LET g == GCD(n, d) IN [n |-> n \div g, d |-> d \div g]
FracOfH(h) == Frac(h, 100)
FracAdd(a, b) == Frac(a.n * b.d + b.n * a.d, a.d * b.d)
FracMul(a, b) == Frac(a.n * b.n, a.d * b.d)
FracDiv(a, b) == Frac(a.n * b.d, a.d * b.n)

\* safeNum: null, undefined and NaN read as 0
safeNum(h) == IF h = NONE THEN 0 ELSE h

\* cfg.CFx ?? fallback
OrElse(h, fallback) == IF h = NONE THEN fallback ELSE h

\* The statistics of the one player of the season, and the factors.
SeasonStats ==
    [ runs : {NONE, H(500)}, sr : {H(140), 13255}, avg : {H(45)},
      fours : {H(40)}, sixes : {H(20)},
      wickets : {0, H(10)}, econ : {NONE, 0, H(8), 785} ]
RoomConfigs == [CF1 : {NONE, H(30), H(25)}, CF2 : {H(2000)}, CF3 : {H(1), 150}]

\* econ > 0 ? CF2 / econ : 0 dividing whenever econ is not negative
EconTerm_DividesByZero(CF2, econ) ==
    IF econ >= 0 THEN FracDiv(FracOfH(CF2), FracOfH(econ)) ELSE Frac(0, 1)

\* econ > 0 ? CF2 / econ : 0
EconTerm(CF2, econ) ==
    IF econ > 0 THEN FracDiv(FracOfH(CF2), FracOfH(econ)) ELSE Frac(0, 1)

\* the body of Object.entries(seasonPlayers).forEach
ScorePlayer(id, p, cfg) ==
    LET CF1 == safeNum(OrElse(cfg.CF1, H(30)))
        CF2 == safeNum(OrElse(cfg.CF2, H(2000)))
        CF3 == safeNum(OrElse(cfg.CF3, H(1)))
        battingScore ==
            FracOfH(safeNum(p.runs) + safeNum(p.sr) + safeNum(p.avg)
                    + safeNum(p.fours) + safeNum(p.sixes))
        wickets == safeNum(p.wickets)
        econ == safeNum(p.econ)
        bowlingScore ==
            FracAdd(FracMul(FracOfH(CF1), FracOfH(wickets)), EconTerm(CF2, econ))
        allRounderScore == FracMul(FracOfH(CF3), FracAdd(battingScore, bowlingScore))
    IN [ id |-> id,
         battingScore |-> battingScore,
         bowlingScore |-> bowlingScore,
         allRounderScore |-> allRounderScore ]

InitScore ==
    /\ auction = [ currentSetIndex |-> 0,
                   currentPlayerIndex |-> 0,
                   currentBidLakhs |-> NONE,
                   currentBidTeamId |-> null,
                   bidDeadlineTs |-> NONE,
                   status |-> "not_started",
                   satOutTeams |-> {},
                   resultMessage |-> <<>>,
                   resultUntilTs |-> NONE ]
    /\ teams = <<>>
    /\ players = <<>>
    /\ room = <<>>
    /\ pc = [c \in {Admin} |-> "idle"]
    /\ pend = [c \in {Admin} |-> Idle]
    /\ now = 0
    /\ ops = 0
    /\ adminUid = null
    /\ SetupClosed
    /\ sets = <<>>
    /\ \E stats \in SeasonStats : seasonPlayers = <<stats>>
    /\ config \in RoomConfigs
    /\ scoredPlayers = <<>>

\* The page renders with the season and the config loaded: useMemo computes
\* scoredPlayers.
ComputeScores ==
    /\ scoredPlayers = <<>>
    /\ scoredPlayers' = [i \in DOMAIN seasonPlayers |->
                            ScorePlayer(i, seasonPlayers[i], config)]
    /\ UNCHANGED <<auction, teams, players, room, pc, pend, now, ops, adminUid,
                   teamLayout, layouts, selectedPlayerId, ensureDue,
                   sets, seasonPlayers, config>>

NextScore == ComputeScores

SpecScore == InitScore /\ [][NextScore]_vars

\* ================================================================ claims

RECURSIVE SumPrices(_, _)
SumPrices(team, ps) ==
    IF ps = {} THEN 0
    ELSE LET p == CHOOSE q \in ps : TRUE
         IN (IF team.playersBought[p] = NONE THEN 0 ELSE team.playersBought[p])
            + SumPrices(team, ps \ {p})

\* the pointer, in the order of the sets
PointerLess(a, b) ==
    \/ a.currentSetIndex < b.currentSetIndex
    \/ /\ a.currentSetIndex = b.currentSetIndex
       /\ a.currentPlayerIndex < b.currentPlayerIndex

\* C1: no team's purseRemainingLakhs is ever negative.
C1_PurseNonNegative ==
    \A t \in DOMAIN teams : teams[t].purseRemainingLakhs >= 0

\* C2: once a player is sold or unsold, no step changes its status,
\* soldToTeamId or soldPriceLakhs.
C2_SettledPlayerImmutable ==
    [][\A p \in PlayerIds :
          players[p].status \in {"sold", "unsold"} => players'[p] = players[p]]_vars

\* C3: each team's purse equals the initial purse minus the prices of the
\* players it bought, and no step increases a purse.
C3_PurseMatchesPurchases ==
    \A t \in DOMAIN teams :
        teams[t].purseRemainingLakhs
            = INITIAL_PURSE - SumPrices(teams[t], PlayerIds)

\* C4: no player is in the playersBought of two teams, and a player is sold
\* to T at price x exactly when T's playersBought holds it at price x.
C4_PlayerAndTeamAgree ==
    \A p \in PlayerIds : \A t \in DOMAIN teams :
        (teams[t].playersBought[p] # NONE)
          <=> /\ players[p].status = "sold"
              /\ players[p].soldToTeamId = t
              /\ players[p].soldPriceLakhs = teams[t].playersBought[p]

\* C5: a settlement whose trigger fetched an auction status other than
\* running changes no player's status, no team's purse or playersBought,
\* and not the auction status.
C5_SettlesOnlyWhenFetchedRunning ==
    [][\A c \in DOMAIN pc :
          (/\ pc[c] \in {"finalize_w", "sitOut_w", "autoSell_w"}
           /\ pc'[c] = "idle"
           /\ pend[c].auctionNow.status # "running")
          => /\ \A p \in PlayerIds : players'[p].status = players[p].status
             /\ \A t \in DOMAIN teams :
                   /\ teams'[t].purseRemainingLakhs = teams[t].purseRemainingLakhs
                   /\ teams'[t].playersBought = teams[t].playersBought
             /\ auction'.status = auction.status]_vars

\* C6: while one player is under auction, every bid write that replaces a
\* bid is at least 50 above the bid it replaces.
C6_BidWritesIncrease ==
    [][\A c \in DOMAIN pc :
          (/\ pc[c] = "bid_w"
           /\ pc'[c] # "bid_w"
           /\ auction.currentBidLakhs # NONE)
          => auction'.currentBidLakhs >= auction.currentBidLakhs + BID_STEP]_vars

\* C7: currentBidLakhs is null or a positive multiple of 50, and so is
\* every soldPriceLakhs.
C7_AmountsMultipleOf50 ==
    /\ \/ auction.currentBidLakhs = NONE
       \/ /\ auction.currentBidLakhs > 0
          /\ auction.currentBidLakhs % BID_STEP = 0
    /\ \A p \in PlayerIds :
          \/ players[p].soldPriceLakhs = NONE
          \/ /\ players[p].soldPriceLakhs > 0
             /\ players[p].soldPriceLakhs % BID_STEP = 0

\* C7 witness: a custom bid typed in crores was accepted and the player was
\* sold at that amount.
C7_Witness ==
    \E p \in PlayerIds :
        /\ players[p].status = "sold"
        /\ players[p].soldPriceLakhs = INITIAL_PURSE

\* C8: no step moves the pointer (currentSetIndex, currentPlayerIndex)
\* backwards.
C8_PointerNeverDecreases ==
    [][~PointerLess(auction', auction)]_vars

\* C9: whenever the status is not running, there is no current bid and no
\* current bidder.
C9_BidOnlyWhileRunning ==
    auction.status # "running"
        => /\ auction.currentBidLakhs = NONE
           /\ auction.currentBidTeamId = null

\* C10: once the status is finished, it stays finished.
C10_FinishedIsTerminal ==
    [][auction.status = "finished" => auction'.status = "finished"]_vars

\* C11: a custom bid above the remaining purse of the team, as the bidder's
\* page holds it, is never taken up (no write follows, so the auction, the
\* teams and the players stay as they were), and a custom bid that passed
\* the checks, one equal to the purse included, lands as currentBidLakhs
\* with the bidding team as currentBidTeamId and changes neither teams nor
\* players.
C11_CustomBidAgainstPurse ==
    [][\A c \in DOMAIN pc :
          /\ (pc[c] = "idle" /\ pc'[c] = "bid_w" /\ pend'[c].kind = "customBid")
                => /\ pend'[c].au.currentBidLakhs
                        <= View(c).teams[c].purseRemainingLakhs
                   /\ UNCHANGED <<auction, teams, players>>
          /\ (pc[c] = "bid_w" /\ pend[c].kind = "customBid" /\ pc'[c] = "idle")
                => /\ auction'.currentBidLakhs = pend[c].au.currentBidLakhs
                   /\ auction'.currentBidTeamId = c
                   /\ UNCHANGED <<teams, players>>]_vars

\* A custom bid of exactly the bidder's whole purse stands.
C11_Witness ==
    /\ auction.status = "running"
    /\ auction.currentBidTeamId # null
    /\ auction.currentBidLakhs = teams[auction.currentBidTeamId].purseRemainingLakhs

\* C12: a sit-out settles nothing while an active team remains, unless the
\* one active team left holds the bid.  A sit-out that leaves an active team
\* only marks the team as sat out (status, bid, holder, teams and players
\* stay as they were), and the single-bidder sale that may follow it goes
\* ahead only when, in the auction it fetched, the teams still active are
\* exactly the holder of the bid; otherwise it returns and writes nothing.
C12_SitOutLeavesActiveTeams ==
    [][\A c \in DOMAIN pc :
          /\ (pc[c] = "idle" /\ pc'[c] \in {"sitOut_mark_w", "sitOut_r"})
                => LET act == activeTeamIds(
                                [auction EXCEPT !.satOutTeams = @ \cup {c}], teams)
                   IN act # {} => pc'[c] = "sitOut_mark_w"
          /\ (pc[c] = "sitOut_mark_w" /\ pc'[c] # "sitOut_mark_w")
                => /\ auction' = [auction EXCEPT !.satOutTeams = auction'.satOutTeams]
                   /\ UNCHANGED <<teams, players>>
          /\ (pc[c] = "autoSell_r" /\ pc'[c] # "autoSell_r")
                => LET a == pend[c].auctionNow
                       act == activeTeamIds(a, teams)
                   IN \/ act = {a.currentBidTeamId} /\ a.currentBidLakhs # NONE
                      \/ pc'[c] = "idle" /\ UNCHANGED <<auction, teams, players>>]_vars

\* One team of three has sat out on a player with a bid: two teams are
\* still active and the auction goes on.
C12_Witness ==
    /\ auction.status = "running"
    /\ auction.satOutTeams # {}
    /\ auction.currentBidLakhs # NONE
    /\ Cardinality(activeTeamIds(auction, teams)) >= 2
    /\ \A p \in PlayerIds : players[p].status \notin {"sold", "unsold"}

\* C13: when a sit-out leaves exactly one active team and that team holds
\* the bid, the handler of that sit-out goes on to the single-bidder sale,
\* and the sale, once it finds in the auction it fetched that the one active
\* team is the holder, sells the player to that team at that bid: the
\* player becomes sold, the purse it fetched is debited by the bid and the
\* status becomes showing_result, whatever the deadline.
C13_SingleBidderSoldAtOnce ==
    [][\A c \in DOMAIN pc :
          /\ (pc[c] = "idle" /\ pc'[c] \in {"sitOut_mark_w", "sitOut_r"})
                => LET act == activeTeamIds(
                                [auction EXCEPT !.satOutTeams = @ \cup {c}], teams)
                   IN (act = {auction.currentBidTeamId} /\ auction.currentBidLakhs # NONE)
                         => (pc'[c] = "sitOut_mark_w" /\ pend'[c].autoSell)
          /\ (pc[c] = "sitOut_mark_w" /\ pend[c].autoSell /\ pc'[c] # "sitOut_mark_w")
                => pc'[c] = "autoSell"
          /\ (pc[c] = "autoSell_r" /\ pc'[c] # "autoSell_r")
                => LET a == pend[c].auctionNow
                   IN (activeTeamIds(a, teams) = {a.currentBidTeamId}
                            /\ a.currentBidLakhs # NONE)
                         => /\ pc'[c] = "autoSell_w"
                            /\ pend'[c].updates.sold
                            /\ pend'[c].updates.teamId = a.currentBidTeamId
                            /\ pend'[c].updates.priceLakhs = a.currentBidLakhs
                            /\ pend'[c].updates.newPurse =
                                  teams[a.currentBidTeamId].purseRemainingLakhs
                                      - a.currentBidLakhs
          /\ (pc[c] = "autoSell_w" /\ pc'[c] # "autoSell_w")
                => LET u == pend[c].updates
                   IN /\ players'[u.playerId].status = "sold"
                      /\ players'[u.playerId].soldToTeamId = u.teamId
                      /\ players'[u.playerId].soldPriceLakhs = u.priceLakhs
                      /\ teams'[u.teamId].purseRemainingLakhs = u.newPurse
                      /\ teams'[u.teamId].playersBought[u.playerId] = u.priceLakhs
                      /\ auction'.status = "showing_result"]_vars

\* Start, one bid and one sit-out, and the player is sold to the bidder
\* before the clock has moved.
C13_Witness ==
    /\ ops = 3
    /\ now = 0
    /\ auction.status = "showing_result"
    /\ \E p \in PlayerIds, t \in DOMAIN teams :
          /\ players[p].status = "sold"
          /\ players[p].soldToTeamId = t
          /\ teams[t].purseRemainingLakhs = INITIAL_PURSE - players[p].soldPriceLakhs

\* C14: when a sit-out on a running auction leaves no active team, its
\* handler settles the player at once with the bid of the auction record it fetched: sold to
\* currentBidTeamId at currentBidLakhs when there is a bid, unsold
\* otherwise, and the status becomes showing_result.
C14_AllSatOutSettles ==
    [][\A c \in DOMAIN pc :
          /\ (pc[c] = "idle" /\ pc'[c] \in {"sitOut_mark_w", "sitOut_r"})
                => LET a == [auction EXCEPT !.satOutTeams = @ \cup {c}]
                       act == {t \in DOMAIN teams : ~isEffectivelySatOut(t, a, teams)}
                   IN (auction.status = "running" /\ act = {})
                          => /\ pc'[c] = "sitOut_r"
                             /\ pend'[c].auctionNow = auction
                             /\ pend'[c].playerId = CurrentPlayerId(auction)
          /\ (pc[c] = "sitOut_r" /\ pc'[c] # "sitOut_r")
                => LET a == pend[c].auctionNow
                       u == pend'[c].updates
                   IN /\ pc'[c] = "sitOut_w"
                      /\ u.playerId = pend[c].playerId
                      /\ IF a.currentBidTeamId # null /\ a.currentBidLakhs # NONE
                         THEN /\ u.sold
                              /\ u.teamId = a.currentBidTeamId
                              /\ u.priceLakhs = a.currentBidLakhs
                         ELSE ~u.sold
          /\ (pc[c] = "sitOut_w" /\ pc'[c] # "sitOut_w")
                => LET u == pend[c].updates
                   IN /\ auction'.status = "showing_result"
                      /\ IF u.sold
                         THEN /\ players'[u.playerId].status = "sold"
                              /\ players'[u.playerId].soldToTeamId = u.teamId
                              /\ players'[u.playerId].soldPriceLakhs = u.priceLakhs
                         ELSE players'[u.playerId].status = "unsold"]_vars

\* Both teams sat out on a player nobody bid for: it is unsold before the
\* clock has moved.
C14_Witness ==
    /\ now = 0
    /\ auction.status = "showing_result"
    /\ \E p \in PlayerIds :
          /\ players[p].status = "unsold"
          /\ auction.resultMessage = <<p, "unsold">>

\* C15: sit-out is one-way for the current player.  While the auction stays
\* running on the same player a team that is in satOutTeams stays in it,
\* and no bid handler takes up a bid of a team that is in satOutTeams.
C15_SitOutIsOneWay ==
    [][/\ (/\ auction.status = "running"
           /\ auction'.status = "running"
           /\ auction'.currentSetIndex = auction.currentSetIndex
           /\ auction'.currentPlayerIndex = auction.currentPlayerIndex)
            => auction.satOutTeams \subseteq auction'.satOutTeams
       /\ \A c \in DOMAIN pc :
            (pc[c] = "idle" /\ pc'[c] = "bid_w") => c \notin auction.satOutTeams]_vars

\* C16: when runAdvance finds players left in the sets, the update it
\* prepares has status finished if and only if every team has less than 50
\* lakhs AND every team holds at least 25 players; otherwise it has status
\* running, the pointer of the next player and a fresh deadline.  The
\* update then lands as prepared.
C16_EarlyFinish ==
    [][\A c \in DOMAIN pc :
         /\ (pc[c] = "idle" /\ pc'[c] = "advance_w") =>
              LET next == advanceToNextPlayerFields(auction)
                  remain == next.nextStatus # "finished"
                  allOut == \A t \in DOMAIN teams : teams[t].purseRemainingLakhs < 50
                  allFull == \A t \in DOMAIN teams :
                               Cardinality({p \in DOMAIN teams[t].playersBought :
                                              teams[t].playersBought[p] # NONE}) >= 25
                  au == pend'[c].au
              IN remain =>
                   /\ au.status = "finished" <=> (allOut /\ allFull)
                   /\ au.status # "finished" =>
                        /\ au.status = "running"
                        /\ PlayerAt(au.currentSetIndex, au.currentPlayerIndex) # null
                        /\ PointerLess(auction, au)
                        /\ au.bidDeadlineTs = now + BID_WINDOW_MS
         /\ (pc[c] = "advance_w" /\ pc'[c] = "idle") =>
              /\ auction'.status = pend[c].au.status
              /\ auction'.currentSetIndex = pend[c].au.currentSetIndex
              /\ auction'.currentPlayerIndex = pend[c].au.currentPlayerIndex]_vars

\* the auction was ended early, with a player still at the pointer's next place
C16_Witness ==
    /\ auction.status = "finished"
    /\ auction.resultMessage = <<>>
    /\ auction.currentSetIndex = 0
    /\ auction.currentPlayerIndex = 1
    /\ \A t \in DOMAIN teams :
          /\ teams[t].purseRemainingLakhs < MIN_PURSE
          /\ BoughtCount(teams[t]) >= MAX_SQUAD

\* C17: in a layout that is not finalized no player is in more than one of
\* the 15 slots.
C17_PlayerInOneSlot ==
    \A t \in DOMAIN teamLayout :
        ~teamLayout[t].finalized =>
            \A s1, s2 \in Slots :
                (/\ teamLayout[t].slots[s1] # NONE
                 /\ teamLayout[t].slots[s1] = teamLayout[t].slots[s2]) => s1 = s2

C19_FinalizedIsFrozen ==
    [][\A t \in DOMAIN teamLayout :
         teamLayout[t].finalized => teamLayout'[t] = teamLayout[t]]_vars

\* C20: no two teams of the room have names that are equal ignoring case.
C20_TeamNamesUnique ==
    \A t1, t2 \in DOMAIN teams :
        t1 # t2 => ToLowerCase(teams[t1].name) # ToLowerCase(teams[t2].name)

\* C21: every player of set 0 or 1 has base price 200, of set 2, 3 or 4 has
\* 100 and of set 5 or later has 50, and a base price once stored does not
\* change.
C21_BasePriceBySet ==
    /\ [](\A i \in DOMAIN sets : \A j \in DOMAIN sets[i] :
            /\ sets[i][j] \in DOMAIN players
            /\ players[sets[i][j]].basePriceLakhs =
                 (IF i - 1 \in {0, 1} THEN 200
                  ELSE IF i - 1 \in {2, 3, 4} THEN 100
                  ELSE 50))
    /\ [][\A p \in DOMAIN players :
            /\ p \in DOMAIN players'
            /\ players'[p].basePriceLakhs = players[p].basePriceLakhs]_vars

\* seven sets are stored: set 1 at 200, set 3 at 100, set 6 at 50
C21_Witness ==
    /\ Len(sets) = 7
    /\ players[sets[2][1]].basePriceLakhs = 200
    /\ players[sets[4][1]].basePriceLakhs = 100
    /\ players[sets[7][1]].basePriceLakhs = 50

\* C22: battingScore = runs + sr + avg + fours + sixes; bowlingScore =
\* CF1 * wickets + CF2 / econ when econ > 0 and CF1 * wickets when econ = 0
\* (nothing is divided by zero); allRounderScore = CF3 * (battingScore +
\* bowlingScore); and with factors 30, 2000, 1 the player with runs 500,
\* sr 140, avg 45, fours 40, sixes 20, wickets 10, econ 8 scores 745, 550
\* and 1295.  A missing statistic counts as 0 and a missing factor as its
\* default.
C22_Scoring ==
    \A i \in DOMAIN scoredPlayers :
        LET p == seasonPlayers[i]
            sc == scoredPlayers[i]
            val(h) == Frac(IF h = NONE THEN 0 ELSE h, 100)
            cf1 == IF config.CF1 = NONE THEN Frac(30, 1) ELSE Frac(config.CF1, 100)
            cf2 == IF config.CF2 = NONE THEN Frac(2000, 1) ELSE Frac(config.CF2, 100)
            cf3 == IF config.CF3 = NONE THEN Frac(1, 1) ELSE Frac(config.CF3, 100)
            runs == val(p.runs)
            sr == val(p.sr)
            avg == val(p.avg)
            fours == val(p.fours)
            sixes == val(p.sixes)
            wickets == val(p.wickets)
            econ == val(p.econ)
        IN /\ sc.battingScore.d # 0 /\ sc.bowlingScore.d # 0 /\ sc.allRounderScore.d # 0
           /\ sc.battingScore
                = FracAdd(FracAdd(FracAdd(FracAdd(runs, sr), avg), fours), sixes)
           /\ econ.n > 0 => sc.bowlingScore
                              = FracAdd(FracMul(cf1, wickets), FracDiv(cf2, econ))
           /\ econ.n = 0 => sc.bowlingScore = FracMul(cf1, wickets)
           /\ sc.allRounderScore
                = FracMul(cf3, FracAdd(sc.battingScore, sc.bowlingScore))
           /\ (/\ cf1 = Frac(30, 1) /\ cf2 = Frac(2000, 1) /\ cf3 = Frac(1, 1)
               /\ p = [ runs |-> 50000, sr |-> 14000, avg |-> 4500, fours |-> 4000,
                        sixes |-> 2000, wickets |-> 1000, econ |-> 800 ])
              => /\ sc.battingScore = [n |-> 745, d |-> 1]
                 /\ sc.bowlingScore = [n |-> 550, d |-> 1]
                 /\ sc.allRounderScore = [n |-> 1295, d |-> 1]

\* the player of the example has been scored with the default factors
C22_Witness ==
    /\ scoredPlayers # <<>>
    /\ seasonPlayers # <<>>
    /\ config = [CF1 |-> NONE, CF2 |-> 200000, CF3 |-> 100]
    /\ seasonPlayers[1] = [ runs |-> 50000, sr |-> 14000, avg |-> 4500,
                            fours |-> 4000, sixes |-> 2000, wickets |-> 1000,
                            econ |-> 800 ]
    /\ scoredPlayers[1].allRounderScore = [n |-> 1295, d |-> 1]

\* C23: every committed settlement, in its one update, sells the current
\* player to currentBidTeamId at currentBidLakhs when there is a bid, lowers
\* that team's purse by exactly that amount and changes no other team's
\* purse or playersBought; marks the player unsold and changes no team when
\* there is no bid; and in both cases clears currentBidLakhs,
\* currentBidTeamId, bidDeadlineTs and satOutTeams, sets status to
\* showing_result and leaves the pointer as it is.
SettlementCommits ==
    \E c \in DOMAIN pc : /\ pc[c] \in {"finalize_w", "sitOut_w", "autoSell_w"}
                         /\ pc'[c] = "idle"

C23_SettlementFrame ==
    [][SettlementCommits =>
         LET p == CurrentPlayerId(auction)
             w == auction.currentBidTeamId
             bid == auction.currentBidLakhs
         IN /\ p # null
            /\ \A q \in DOMAIN players \ {p} : players'[q] = players[q]
            /\ IF w # null /\ bid # NONE
               THEN /\ players'[p].status = "sold"
                    /\ players'[p].soldToTeamId = w
                    /\ players'[p].soldPriceLakhs = bid
                    /\ teams'[w].purseRemainingLakhs
                         = teams[w].purseRemainingLakhs - bid
                    /\ \A t \in DOMAIN teams \ {w} :
                         /\ teams'[t].purseRemainingLakhs = teams[t].purseRemainingLakhs
                         /\ teams'[t].playersBought = teams[t].playersBought
               ELSE /\ players'[p].status = "unsold"
                    /\ teams' = teams
            /\ auction'.currentBidLakhs = NONE
            /\ auction'.currentBidTeamId = null
            /\ auction'.bidDeadlineTs = NONE
            /\ auction'.satOutTeams = {}
            /\ auction'.status = "showing_result"
            /\ auction'.currentSetIndex = auction.currentSetIndex
            /\ auction'.currentPlayerIndex = auction.currentPlayerIndex]_vars

\* C24: the update runAdvance prepares out of showing_result points to the
\* next index of the same set if there is one, otherwise to index 0 of the
\* next set, otherwise to the last player with status finished; when its
\* status is not finished it is running with no bid, no sat-out teams, no
\* result message and a deadline 30 seconds ahead; and the update lands as
\* prepared.
C24_AdvanceTarget ==
    [][\A c \in DOMAIN pc :
         /\ (pc[c] = "idle" /\ pc'[c] = "advance_w") =>
               LET u == pend'[c].au
                   si == auction.currentSetIndex
                   pi == auction.currentPlayerIndex
               IN /\ IF pi + 2 \in DOMAIN AuctionSets[si + 1]
                     THEN u.currentSetIndex = si /\ u.currentPlayerIndex = pi + 1
                     ELSE IF si + 2 \in DOMAIN AuctionSets
                     THEN u.currentSetIndex = si + 1 /\ u.currentPlayerIndex = 0
                     ELSE /\ u.currentSetIndex = si
                          /\ u.currentPlayerIndex = pi
                          /\ u.status = "finished"
                  /\ u.status # "finished" =>
                        /\ u.status = "running"
                        /\ u.currentBidLakhs = NONE
                        /\ u.currentBidTeamId = null
                        /\ u.satOutTeams = {}
                        /\ u.resultMessage = <<>>
                        /\ u.bidDeadlineTs = now + 30000
         /\ (pc[c] = "advance_w" /\ pc'[c] = "idle") =>
               \A f \in DOMAIN pend[c].au : auction'[f] = pend[c].au[f]]_vars

\* runAdvance has prepared the step from the last player of the first set
\* to index 0 of the second set, running with a fresh deadline
C24_Witness ==
    \E c \in DOMAIN pc :
        /\ pc[c] = "advance_w"
        /\ auction.status = "showing_result"
        /\ auction.currentSetIndex = 0
        /\ auction.currentPlayerIndex = 1
        /\ pend[c].au.currentSetIndex = 1
        /\ pend[c].au.currentPlayerIndex = 0
        /\ pend[c].au.status = "running"
        /\ pend[c].au.bidDeadlineTs = now + BID_WINDOW_MS

\* C25: auto-advance is idempotent under concurrent attempts.  Every
\* runAdvance that goes on to write has fetched the result of a settled
\* player with the pointer still on that player, so the pointer it
\* prepares is one position past the settled player (or that player is the
\* last), whichever other attempts have read or written before; and its
\* write puts the pointer there.  No attempt moves the pointer on from a
\* player that was not settled.
C25_AdvanceIdempotent ==
    [][\A c \in DOMAIN pc :
         /\ (pc[c] = "idle" /\ pc'[c] = "advance_w") =>
               LET settled == CurrentPlayerId(auction)
                   next == advanceToNextPlayerFields(auction)
               IN /\ settled # null
                  /\ auction.resultMessage # <<>>
                  /\ auction.resultMessage[1] = settled
                  /\ players[settled].status \in {"sold", "unsold"}
                  /\ pend'[c].au.currentSetIndex = next.nextSetIndex
                  /\ pend'[c].au.currentPlayerIndex = next.nextPlayerIndex
         /\ (pc[c] = "advance_w" /\ pc'[c] = "idle") =>
               /\ auction'.currentSetIndex = pend[c].au.currentSetIndex
               /\ auction'.currentPlayerIndex = pend[c].au.currentPlayerIndex]_vars

\* C26: sit-out flags are scoped to the current player.  Every step that
\* moves the pointer leaves satOutTeams empty, and the satOutTeams that a
\* sit-out writes lands while the pointer is on the player the team chose
\* to sit out on (a sit-out begun on an earlier player never marks the
\* team sat out on a later one).
C26_SitOutScopedToPlayer ==
    [][/\ (\/ auction'.currentSetIndex # auction.currentSetIndex
           \/ auction'.currentPlayerIndex # auction.currentPlayerIndex)
            => auction'.satOutTeams = {}
       /\ \A c \in DOMAIN pc :
            (pc[c] = "sitOut_mark_w" /\ pc'[c] # "sitOut_mark_w")
                => CurrentPlayerId(auction) = pend[c].playerId]_vars

\* C27: a raise or a custom bid goes on to its write only when the auction
\* record it fetched names another team (or none) as holder of the bid,
\* the bidding team is not in the fetched satOutTeams and its purse, as the
\* page has it, is at least 50; and a bid write never replaces a bid of the
\* same team.
C27_HolderAndSatOutRejected ==
    [][\A c \in DOMAIN pc :
         /\ (/\ pc[c] = "idle"
             /\ pc'[c] = "bid_w"
             /\ pend'[c].kind \in {"raiseBid", "customBid"})
              => LET t == pend'[c].au.currentBidTeamId
                 IN /\ auction.currentBidTeamId # t
                    /\ t \notin auction.satOutTeams
                    /\ View(c).teams[t].purseRemainingLakhs >= 50
         /\ (pc[c] = "bid_w" /\ pc'[c] # "bid_w")
              => auction.currentBidTeamId # pend[c].au.currentBidTeamId]_vars

\* C28: no start, raise or custom bid goes on to its write when the
\* bidDeadlineTs it fetched has passed, and from the moment the stored
\* deadline of the current player is in the past currentBidLakhs and
\* currentBidTeamId change only through a settlement of that player.
C28_NoBidAfterDeadline ==
    [][/\ \A c \in DOMAIN pc :
            (pc[c] = "idle" /\ pc'[c] = "bid_w") => ~DeadlinePassed(auction)
       /\ (/\ auction.status = "running"
           /\ DeadlinePassed(auction)
           /\ \/ auction'.currentBidLakhs # auction.currentBidLakhs
              \/ auction'.currentBidTeamId # auction.currentBidTeamId)
            => \E c \in DOMAIN pc :
                  /\ pc[c] \in {"finalize_w", "sitOut_w", "autoSell_w"}
                  /\ pc'[c] = "idle"
                  /\ pend[c].updates.playerId = CurrentPlayerId(auction)]_vars

C30_TimeBankExtendsDeadline ==
    [][\A c \in DOMAIN pc :
         (/\ pc[c] = "timeBank_w"
          /\ pc'[c] = "idle"
          /\ auction.bidDeadlineTs # NONE)
           => /\ auction'.bidDeadlineTs = auction.bidDeadlineTs + 15000
              /\ auction'.bidDeadlineTs >= auction.bidDeadlineTs]_vars

\* C31: a bidding deadline exists only while the auction is running.  In
\* every reachable state with status showing_result or finished
\* bidDeadlineTs is null, and no step sets bidDeadlineTs while leaving the
\* auction in a status other than running.
C31_DeadlineOnlyWhileRunning ==
    /\ [](auction.status \in {"showing_result", "finished"}
            => auction.bidDeadlineTs = NONE)
    /\ [][(/\ auction'.bidDeadlineTs # auction.bidDeadlineTs
           /\ auction'.bidDeadlineTs # NONE)
            => auction'.status = "running"]_vars

\* C32: an admin next-player skip whose update reaches the shared auction
\* record while a bid is active there changes nothing: it neither moves the
\* pointer nor discards the bid.
C32_SkipRejectedWhileBidActive ==
    [][\A c \in DOMAIN pc :
         (/\ pc[c] = "nextPlayer_w"
          /\ pc'[c] = "idle"
          /\ auction.currentBidLakhs # NONE)
         => auction' = auction]_vars

\* the allRounderScore the page computed for the player with this id
ScoreOfPlayer(id) ==
    scoredPlayers[CHOOSE i \in DOMAIN scoredPlayers :
                     scoredPlayers[i].id = id].allRounderScore

\* the ids at places first..last of the scored players in descending score
SortedChunk(first, last) ==
    LET sorted == SortByAllRounderScore(scoredPlayers)
    IN {sorted[k].id : k \in {k \in DOMAIN sorted : first <= k /\ k <= last}}

\* C33: once sets are stored they partition the scored players: every scored
\* player is at exactly one place of exactly one set; every set but the last
\* has exactly 20 players; every player of a set scores at least as much as
\* every player of the following set; and the members of set i are the
\* members of the i-th chunk of 20 of the players sorted by score.
C33_SetsPartitionScoredPlayers ==
    sets # <<>> =>
      /\ \A i \in DOMAIN scoredPlayers :
            Cardinality({sj \in {<<s, j>> : s \in DOMAIN sets, j \in 1..SET_SIZE} :
                           /\ sj[2] \in DOMAIN sets[sj[1]]
                           /\ sets[sj[1]][sj[2]] = scoredPlayers[i].id}) = 1
      /\ \A s \in DOMAIN sets :
            /\ Len(sets[s]) <= SET_SIZE
            /\ Len(sets[s]) >= 1
            /\ s < Len(sets) => Len(sets[s]) = SET_SIZE
            /\ \A j \in DOMAIN sets[s] :
                  \E i \in DOMAIN scoredPlayers : scoredPlayers[i].id = sets[s][j]
      /\ \A s \in DOMAIN sets :
            s + 1 \in DOMAIN sets =>
              \A j \in DOMAIN sets[s], k \in DOMAIN sets[s + 1] :
                 ScoreOfPlayer(sets[s][j]) >= ScoreOfPlayer(sets[s + 1][k])
      /\ \A s \in DOMAIN sets :
            {sets[s][j] : j \in DOMAIN sets[s]} =
               SortedChunk((s - 1) * SET_SIZE + 1, s * SET_SIZE)

\* three sets of 20, 20 and 5 are stored from a list that was not in score
\* order, and the shuffle moved the best player away from the first place
C33_Witness ==
    /\ Len(sets) = 3
    /\ Len(sets[3]) = 5
    /\ scoredPlayers[1].allRounderScore < scoredPlayers[2].allRounderScore
    /\ sets[1][1] # SortByAllRounderScore(scoredPlayers)[1].id

\* C34: set generation takes effect only before the auction has started: an
\* update of handleGenerateSets that reaches the room while the status is
\* running, showing_result or finished changes no player record, no set and
\* nothing of the auction (pointer, bid, results, status).
C34_NoGenerationAfterStart ==
    [][\A c \in DOMAIN pc :
         (/\ pc[c] = "generateSets_loop"
          /\ pc'[c] = "idle"
          /\ auction.status \in {"running", "showing_result", "finished"})
         => /\ players' = players
            /\ sets' = sets
            /\ auction' = auction]_vars

\* the team created first: the one with the earliest createdAt
FirstTeam ==
    CHOOSE t \in DOMAIN teams :
        \A u \in DOMAIN teams : teams[t].createdAt <= teams[u].createdAt

\* C35: adminUid is the ownerUid of the first team created in the room and,
\* once set, never changes, also when several clients create their teams
\* before any of them has seen an adminUid.
C35_AdminIsFirstOwner ==
    /\ [](adminUid # null =>
            /\ teams # <<>>
            /\ adminUid = teams[FirstTeam].ownerUid)
    /\ [][adminUid # null => adminUid' = adminUid]_vars

\* C36: progress.  With the admin's poll and banner timer kept running,
\* every player that is under auction is eventually sold or unsold (unless
\* the admin skips it), every showing_result is followed by running or
\* finished, and a running auction eventually reaches finished.
C36_Progress ==
    /\ \A p \in PlayerIds :
          (auction.status = "running" /\ CurrentPlayerId(auction) = p)
             ~> (\/ players[p].status \in {"sold", "unsold"}
                 \/ pc[Admin] = "nextPlayer_w")
    /\ (auction.status = "showing_result")
          ~> (auction.status \in {"running", "finished"})
    /\ (auction.status = "running") ~> (auction.status = "finished")

\* C37: the team holding the highest bid can always pay it: whenever
\* currentBidTeamId is set, currentBidLakhs is at most the
\* purseRemainingLakhs of that team.
C37_HolderCanPay ==
    (auction.currentBidTeamId # null /\ auction.currentBidLakhs # NONE)
       => /\ auction.currentBidTeamId \in DOMAIN teams
          /\ auction.currentBidLakhs
                <= teams[auction.currentBidTeamId].purseRemainingLakhs

\* C38: an accepted bid is never lost: currentBidLakhs goes from a bid to no
\* bid only in the update that settles the current player as sold to the
\* holder of that bid at that amount.
C38_BidOnlyClearedBySale ==
    [][ (auction.currentBidLakhs # NONE /\ auction'.currentBidLakhs = NONE)
           => LET playerId == CurrentPlayerId(auction)
              IN /\ playerId # null
                 /\ auction.currentBidTeamId # null
                 /\ players'[playerId].status = "sold"
                 /\ players'[playerId].soldToTeamId = auction.currentBidTeamId
                 /\ players'[playerId].soldPriceLakhs = auction.currentBidLakhs
      ]_vars


\* The position (setIndex, playerIndex) lies strictly before the pointer of a
\* in the order of the sets.
BeforePointer(setIndex, playerIndex, a) ==
    \/ setIndex < a.currentSetIndex
    \/ /\ setIndex = a.currentSetIndex
       /\ playerIndex < a.currentPlayerIndex

\* The pointer of a is on the last player of the last set.
OnLastPlayer(a) ==
    /\ a.currentSetIndex + 1 = Len(AuctionSets)
    /\ a.currentPlayerIndex + 1 = Len(AuctionSets[Len(AuctionSets)])

\* C39: every player the pointer has moved past is sold or unsold, and when
\* the auction has finished on the last player of the last set every player
\* is sold or unsold.
C39_PassedPlayersSettled ==
    /\ \A s \in DOMAIN AuctionSets : \A i \in DOMAIN AuctionSets[s] :
          BeforePointer(s - 1, i - 1, auction)
             => players[AuctionSets[s][i]].status \in {"sold", "unsold"}
    /\ (auction.status = "finished" /\ OnLastPlayer(auction))
          => \A p \in PlayerIds : players[p].status \in {"sold", "unsold"}


====
